---- MODULE Spec2Model ----
(***************************************************************************)
(* AiPrReviewer: the diff-aware review cache and the review pass.          *)
(*                                                                         *)
(* Text is modelled as its sequence of lines (what String.split('\n')      *)
(* returns and Array.join('\n') takes); a line is a triple                 *)
(* <<kind, a, b>> of strings:                                              *)
(*   <<"git", P, Q>>   the line  diff --git a/P b/Q                        *)
(*   <<"old", P, "">>  the line  --- a/P                                   *)
(*   <<"new", P, "">>  the line  +++ b/P                                   *)
(*   <<"meta", t, v>>  an extended header line (index, rename from, ...)   *)
(*   <<"hunk", t, v>>  a hunk line (@@ ... @@, context, +, -)              *)
(*   <<"blank","","">> the empty line                                      *)
(***************************************************************************)
EXTENDS Integers, Sequences, FiniteSets, TLC

VARIABLES
  blocks,    \* SpecParse: the file blocks the input diff was written from
  pdiff,     \* SpecParse: the diff text handed to parseAndHashDiff
  pfiles,    \* SpecParse: what parseAndHashDiff returned
  ppc,       \* SpecParse: "input" before the call, "parsed" after it
  cache,     \* the reviewCache table: key <<repositoryId, filePath, contentHash>> -> review
  st,        \* per pass: the locals of reviewPullRequest and its position
  slots,     \* the passes that may run
  runs,      \* passes started so far
  reviewed,  \* history: keys of fragments that were in a batch answered by a structured review
  store,     \* how the storage layer behaves: "up", "noread" or "partwrite"
  call,      \* SpecClient: one invocation of an AI client
  rows,      \* SpecCache: the rows of the reviewCache table
  ops,       \* SpecCache: per caller, its call of lib/cache.ts under way or just done
  pub,       \* SpecPost: the posting step of a pass, with the log of its posts
  hook,      \* SpecSink: the webhook handler's answer to one delivery
  wk,        \* SpecSink: the queue worker's run over the waiting jobs
  pool,      \* SpecWorkers: the queue and the invocations of the worker endpoint
  sig,       \* SpecVerify: one webhook request and the handler's answer to it
  now,       \* the day, on the clock of the database
  ev         \* SpecEvict: the last call of lib/cache.ts and what it returned

parseVars == <<blocks, pdiff, pfiles, ppc>>
passVars == <<cache, st, slots, runs, reviewed>>
clientVars == <<call>>
tableVars == <<rows, ops>>
postVars == <<pub>>
sinkVars == <<hook, wk, pool, sig>>
evictVars == <<now, ev>>
sideVars == <<postVars, sinkVars, evictVars>>

\* what the steps of a pass leave alone
offPass == <<parseVars, clientVars, tableVars, store, sideVars>>

\* no client invocation under way
NoCall == [fn |-> "", pc |-> "off", attempt |-> 0, log |-> <<>>, thrown |-> <<>>]

\* no posting step, no delivery, no worker run, no call of lib/cache.ts
NoPost ==
  [pc |-> "off", lineComments |-> <<>>, fallbackReview |-> <<>>, n |-> 1,
   successCount |-> 0, log |-> <<>>, lineCommentCount |-> 0, summary |-> "none",
   fallback |-> "none", result |-> <<>>]

NoHook == [pc |-> "off", success |-> FALSE, recorded |-> "none", status |-> 0]

NoWork ==
  [pc |-> "off", waiting |-> <<>>, n |-> 1, processed |-> 0, failed |-> 0,
   errors |-> <<>>, queue |-> {}, log |-> <<>>]

NoPool == [queue |-> {}, inv |-> <<>>, ran |-> <<>>]

NoRequest ==
  [pc |-> "off", header |-> <<>>, body |-> "", secret |-> <<>>, status |-> 0,
   threw |-> "none", db |-> FALSE, pass |-> FALSE]

NoEvent ==
  [fn |-> "", key |-> <<>>, ok |-> TRUE, got |-> <<>>, saved |-> FALSE,
   repositoryId |-> "", daysOld |-> 0, at |-> 0, count |-> 0, before |-> <<>>,
   stored |-> {}, evicted |-> {}]

\* the variables of SpecPost, SpecSink and SpecEvict at rest
SideOff ==
  /\ pub = NoPost
  /\ hook = NoHook
  /\ wk = NoWork
  /\ pool = NoPool
  /\ sig = NoRequest
  /\ now = 0
  /\ ev = NoEvent

(***************************************************************************)
(* Bounds                                                                  *)
(***************************************************************************)
MaxBlocks == 3
MaxRuns == 2
MaxComments == 2
MaxCalls == 2
MaxJobs == 3
MaxDays == 2
MaxHeader == 3

(***************************************************************************)
(* Generic helpers                                                         *)
(***************************************************************************)
RECURSIVE Flatten(_)
Flatten(ss) == IF ss = <<>> THEN <<>> ELSE Head(ss) \o Flatten(Tail(ss))

RECURSIVE SeqsUpTo(_, _)
SeqsUpTo(S, n) ==
  IF n = 0 THEN {<<>>}
  ELSE LET shorter == SeqsUpTo(S, n - 1)
       IN  shorter \cup {Append(s, x) : s \in shorter, x \in S}

Range(s) == {s[i] : i \in DOMAIN s}

(***************************************************************************)
(* Lines and texts                                                         *)
(***************************************************************************)
BlankLine == <<"blank", "", "">>
EmptyText == <<BlankLine>>

\* String.prototype.split('\n'): a text is kept as its lines
SplitLines(text) == text

\* Array.prototype.join('\n') of lines: no line gives the empty string
JoinLines(ls) == IF ls = <<>> THEN EmptyText ELSE ls

\* Array.prototype.join('\n') of texts
JoinTexts(ts) == IF ts = <<>> THEN EmptyText ELSE Flatten(ts)

\* line.startsWith('diff --git a/') || line.startsWith('--- a/')
IsFileHeader(line) == line[1] = "git" \/ line[1] = "old"

\* path extraction: match[1] of /diff --git a\/(.+) b\/(.+)$/, or
\* line.substring(6) of '--- a/P'; the model's paths carry no outer blanks,
\* so trim() leaves them as they are
HeaderPath(line) == line[2]

\* crypto.createHash('sha256').update(content).digest('hex'): a digest that
\* differs whenever the content differs
hashFileContent(content) == <<"sha256", content>>

(***************************************************************************)
(* The plain object fileMap: its own keys in insertion order; assignment   *)
(* to an existing key keeps the key's place.  Object.entries lists the     *)
(* integer-like keys first, in ascending numeric order, then the others in *)
(* insertion order.                                                        *)
(***************************************************************************)
ArrayIndexOf(path) ==
  CASE path = "3" -> 3
    [] path = "7" -> 7
    [] OTHER -> -1

HasKey(fm, path) == \E i \in DOMAIN fm : fm[i][1] = path

FileMapKeepFirst(fm, path, ls) ==
  IF HasKey(fm, path) THEN fm ELSE Append(fm, <<path, ls>>)

\* fileMap[path] = lines
FileMapSet(fm, path, ls) ==
  IF HasKey(fm, path)
  THEN [i \in DOMAIN fm |-> IF fm[i][1] = path THEN <<path, ls>> ELSE fm[i]]
  ELSE Append(fm, <<path, ls>>)

RECURSIVE SortByIndex(_)
SortByIndex(es) ==
  IF es = <<>> THEN <<>>
  ELSE LET m == CHOOSE i \in DOMAIN es :
                  \A j \in DOMAIN es :
                    ArrayIndexOf(es[i][1]) <= ArrayIndexOf(es[j][1])
           rest == SubSeq(es, 1, m - 1) \o SubSeq(es, m + 1, Len(es))
       IN  <<es[m]>> \o SortByIndex(rest)

ObjectEntries(fm) ==
  LET isIdx(e) == ArrayIndexOf(e[1]) >= 0
      notIdx(e) == ArrayIndexOf(e[1]) < 0
  IN  SortByIndex(SelectSeq(fm, isIdx)) \o SelectSeq(fm, notIdx)

(***************************************************************************)
(* parseAndHashDiff                                                        *)
(***************************************************************************)
NoFile == <<>>

FlushIfHunk(cur, fm) ==
  IF cur # NoFile /\ (\E n \in DOMAIN cur[1].lines : cur[1].lines[n][1] = "hunk")
  THEN FileMapSet(fm, cur[1].path, cur[1].lines) ELSE fm

\* if (currentFile && currentFile.lines.length > 0) fileMap[path] = lines
Flush(cur, fm) ==
  IF cur # NoFile /\ Len(cur[1].lines) > 0
  THEN FileMapSet(fm, cur[1].path, cur[1].lines) ELSE fm

\* one turn of the loop over the lines
ParseLine(s, line) ==
  LET fm1  == IF IsFileHeader(line) THEN Flush(s.cur, s.fileMap) ELSE s.fileMap
      cur1 == IF IsFileHeader(line)
              THEN <<[path |-> HeaderPath(line), lines |-> <<>>]>>
              ELSE s.cur
      cur2 == IF cur1 # NoFile
              THEN <<[cur1[1] EXCEPT !.lines = Append(@, line)]>>
              ELSE cur1
  IN  [cur |-> cur2, fileMap |-> fm1]

RECURSIVE ParseLoop(_, _)
ParseLoop(s, ls) ==
  IF ls = <<>> THEN s ELSE ParseLoop(ParseLine(s, Head(ls)), Tail(ls))

DiffFile(path, fileLines) ==
  [path        |-> path,
   contentHash |-> hashFileContent(JoinLines(fileLines)),
   fullDiff    |-> JoinLines(fileLines),
   lines       |-> fileLines]

parseAndHashDiff(fullDiff) ==
  LET s  == ParseLoop([cur |-> NoFile, fileMap |-> <<>>], SplitLines(fullDiff))
      fm == Flush(s.cur, s.fileMap)
      es == ObjectEntries(fm)
  IN  [i \in DOMAIN es |-> DiffFile(es[i][1], es[i][2])]

(***************************************************************************)
(* Input diffs: a diff is written as a sequence of file blocks.            *)
(*   gitmod  a modified file as git prints it                              *)
(*   gitnew  an added file as git prints it ('--- /dev/null' is no header) *)
(*   plain   a block of a plain unified diff                               *)
(*   rename  a pure rename: headers only, no hunk                          *)
(*   bare    '---' and '+++' lines only, no hunk                           *)
(***************************************************************************)
Paths == {"a.py", "b.py", "3"}

BlockKinds ==
  ({"gitmod", "gitnew", "rename", "bare"} \X Paths \X {"1"})
    \cup ({"plain"} \X Paths \X {"1", "2"})

BlockLines(b) ==
  LET p == b[2]
      v == b[3]
  IN  CASE b[1] = "gitmod" ->
             << <<"git", p, p>>, <<"meta", "index", v>>, <<"old", p, "">>,
                <<"new", p, "">>, <<"hunk", "@@", v>>, <<"hunk", "+x", v>> >>
        [] b[1] = "gitnew" ->
             << <<"git", p, p>>, <<"meta", "new file mode", v>>,
                <<"meta", "--- /dev/null", v>>, <<"new", p, "">>,
                <<"hunk", "@@", v>>, <<"hunk", "+x", v>> >>
        [] b[1] = "plain" ->
             << <<"old", p, "">>, <<"new", p, "">>,
                <<"hunk", "@@", v>>, <<"hunk", "-y", v>> >>
        [] b[1] = "rename" ->
             << <<"git", p, "renamed">>, <<"meta", "similarity index 100%", v>>,
                <<"meta", "rename from", p>>, <<"meta", "rename to", "renamed">> >>
        [] OTHER ->
             << <<"old", p, "">>, <<"new", p, "">> >>

BlocksText(bs) == JoinTexts([i \in DOMAIN bs |-> BlockLines(bs[i])])

BlockSeqs == SeqsUpTo(BlockKinds, MaxBlocks)

(***************************************************************************)
(* SpecParse: parseAndHashDiff applied to every bounded input              *)
(***************************************************************************)
InitParse ==
  /\ blocks \in BlockSeqs
  /\ pdiff = BlocksText(blocks)
  /\ pfiles = <<>>
  /\ ppc = "input"
  /\ cache = <<>>
  /\ st = <<>>
  /\ slots = {}
  /\ runs = 0
  /\ reviewed = {}
  /\ store = "up"
  /\ call = NoCall
  /\ rows = <<>>
  /\ ops = <<>>
  /\ SideOff

ParseDiff ==
  /\ ppc = "input"
  /\ pfiles' = parseAndHashDiff(pdiff)
  /\ ppc' = "parsed"
  /\ UNCHANGED <<blocks, pdiff>>
  /\ UNCHANGED <<passVars, clientVars, tableVars, store, sideVars>>

NextParse == ParseDiff

vars == <<parseVars, passVars, clientVars, tableVars, store, sideVars>>

SpecParse == InitParse /\ [][NextParse]_vars

(***************************************************************************)
(* The review cache (lib/cache.ts).  A stored review is a string; the      *)
(* model keeps a string as <<tag, comments>>: <<"json", cs>> is            *)
(* JSON.stringify of the array cs, <<"empty", <<>>>> is the empty string.  *)
(***************************************************************************)
NoReview == <<>>

JsonStringify(cs) == <<"json", cs>>

ParsedLoosely(review) == review[2]

\* JSON.parse(cached) followed by Array.isArray: the comments of a JSON
\* array, nothing for any other string (the catch swallows the error)
ParsedComments(review) == IF review[1] = "json" THEN review[2] ELSE <<>>

CacheKey(repositoryId, filePath, contentHash) ==
  <<repositoryId, filePath, contentHash>>

\* whether a query of the store succeeds, by the store's behaviour: every
\* query in "up", no findUnique in "noread", no upsert of a row of the path
\* FailingPath in "partwrite"
FailingPath == "a.py"

ReadAnswers(mode) == IF mode = "noread" THEN {FALSE} ELSE {TRUE}

WriteAnswers(mode, filePath) ==
  IF mode = "partwrite" /\ filePath = FailingPath THEN {FALSE} ELSE {TRUE}

getCachedReviewStale(c, ok, repositoryId, filePath, contentHash) ==
  LET key == CacheKey(repositoryId, filePath, contentHash)
  IN  IF key \in DOMAIN c THEN <<c[key]>> ELSE NoReview

\* prisma.reviewCache.findUnique: cache.review on a hit, null on a miss;
\* when the query throws (ok is false) the catch returns null
getCachedReview(c, ok, repositoryId, filePath, contentHash) ==
  LET key == CacheKey(repositoryId, filePath, contentHash)
  IN  IF ~ok THEN NoReview
      ELSE IF key \in DOMAIN c THEN <<c[key]>> ELSE NoReview

cacheReviewForgets(c, ok, repositoryId, filePath, contentHash, review) ==
  LET key == CacheKey(repositoryId, filePath, contentHash)
  IN  [table |-> [x \in {key} |-> review], returned |-> ok]

\* prisma.reviewCache.upsert: update the review of the key, or create it,
\* and return true; when the query throws (ok is false) the catch returns
\* false and the table is as it was
cacheReview(c, ok, repositoryId, filePath, contentHash, review) ==
  LET key == CacheKey(repositoryId, filePath, contentHash)
  IN  IF ~ok THEN [table |-> c, returned |-> FALSE]
      ELSE [table    |-> [x \in DOMAIN c \cup {key} |-> IF x = key THEN review ELSE c[x]],
            returned |-> TRUE]

(***************************************************************************)
(* Inputs of a pass                                                        *)
(***************************************************************************)
Passes == {"p1", "p2"}

\* the repository table: githubRepoId -> row, with its configuration
RepoIds == {"r1", "r2", "r9"}

RepoRow(githubRepoId) ==
  CASE githubRepoId = "r1" -> <<[id |-> "r1", configuration |-> <<[enabled |-> TRUE]>>]>>
    [] githubRepoId = "r2" -> <<[id |-> "r2", configuration |-> <<[enabled |-> FALSE]>>]>>
    [] OTHER -> <<>>

\* a webhook payload; pull_request is false when the payload has no
\* pull_request member
Payloads ==
  [action : {"opened", "synchronize", "closed"}, repository : RepoIds,
   pull_request : BOOLEAN]

\* the diffs a pull request may have
Diffs ==
  { EmptyText,
    << <<"hunk", "no header", "1">> >>,
    BlocksText(<< <<"plain", "a.py", "1">>, <<"plain", "b.py", "1">> >>),
    BlocksText(<< <<"plain", "a.py", "2">> >>),
    BlocksText(<< <<"rename", "b.py", "1">> >>) }

HeaderOnlyDiffs ==
  {BlocksText(<<b>>) : b \in {x \in BlockKinds : x[1] \in {"rename", "bare"}}}

\* what the diff_url answers: a diff, or nothing when the request fails
Fetched == {<<>>} \cup {<<d>> : d \in Diffs}

LineComment(file, line) == [file |-> file, line |-> line, comment |-> "c"]

\* the comments the backend may make; "x.py" is the path of no fragment
CommentPool ==
  << LineComment("a.py", 1), LineComment("b.py", 1),
     LineComment("a.py", 2), LineComment("x.py", 1) >>

\* the JSON value null as an element of the backend's array
NullElement == [file |-> "null", line |-> 0, comment |-> "null"]

IsNull(c) == c = NullElement

\* JSON arrays with a null element
MalformedResponses ==
  { <<NullElement>>,
    <<LineComment("a.py", 1), NullElement>>,
    <<NullElement, LineComment("a.py", 1)>>,
    <<LineComment("x.py", 1), NullElement>> }

PickAt(s, I) ==
  LET F[i \in 0..Len(s)] ==
        IF i = 0 THEN <<>>
        ELSE IF i \in I THEN Append(F[i - 1], s[i]) ELSE F[i - 1]
  IN  F[Len(s)]

\* the JSON arrays the backend may answer with
Responses ==
  {PickAt(CommentPool, I) :
     I \in {J \in SUBSET DOMAIN CommentPool : Cardinality(J) <= MaxComments}}

\* what one request to the backend may end with
BackendOutcomes ==
  [kind : {"array"}, status : {200}, body : Responses \cup MalformedResponses]
    \cup [kind : {"noarray", "badjson", "nocandidates"}, status : {200}, body : {<<>>}]
    \cup [kind : {"http"}, status : {400, 429, 500, 503}, body : {<<>>}]
    \cup [kind : {"network"}, status : {0}, body : {<<>>}]

(***************************************************************************)
(* The AI client (getAiReviewAsJson, getAiReviewAsText)                    *)
(***************************************************************************)
maxRetries == 3

\* axios.isAxiosError(error)
IsAxiosError(out) == out.kind \in {"http", "network"}

\* error.response?.status: a network failure carries no response
HasStatus(out) == out.kind = "http"

RetryEveryError(out) == TRUE

\* !isAxiosError || (status && (status === 429 || status === 503 || status >= 500))
IsRetryable(out) ==
  \/ ~IsAxiosError(out)
  \/ (HasStatus(out) /\ (out.status = 429 \/ out.status = 503 \/ out.status >= 500))

\* the class of a caught error: an HTTP client error other than 429, an
\* error with no HTTP status, or a retryable one
ErrorClass(out) ==
  CASE out.kind = "http" /\ out.status >= 400 /\ out.status < 500 /\ out.status # 429 -> "client"
    [] out.kind = "network" -> "nostatus"
    [] OTHER -> "retryable"

EmptyArrayThrows(out, attempt) ==
  IF out.kind = "array" /\ out.body # <<>>
  THEN [t |-> "return", v |-> out.body]
  ELSE [t |-> "throw", v |-> <<>>]

\* how one attempt of getAiReviewAsJson ends
JsonAttemptResult(out, attempt) ==
  CASE out.kind = "array"   -> [t |-> "return", v |-> out.body]
    [] out.kind = "noarray" -> [t |-> "return", v |-> <<>>]
    [] OTHER ->
         IF ~IsRetryable(out) \/ attempt = maxRetries - 1
         THEN [t |-> "throw", v |-> <<>>]
         ELSE [t |-> "retry", v |-> <<>>]

\* how one attempt of getAiReviewAsText ends
TextAttemptResult(out, attempt) ==
  CASE out.kind \in {"array", "noarray", "badjson"} -> "return"
    [] OTHER ->
         IF ~IsRetryable(out) \/ attempt = maxRetries - 1
         THEN "throw" ELSE "retry"

(***************************************************************************)
(* reviewPullRequest: the locals of one pass                               *)
(***************************************************************************)
Metrics(success, errorMessage, lineCommentCount, counts) ==
  [success |-> success, errorMessage |-> errorMessage,
   lineCommentCount |-> lineCommentCount, counts |-> counts]

Fresh ==
  [pc |-> "idle", repo |-> "", diff |-> EmptyText, diffFiles |-> <<>>,
   filesTotalCount |-> 0, i |-> 1, fileCachedCount |-> 0,
   cachedLineComments |-> <<>>, filesToReview |-> <<>>,
   lineComments |-> <<>>, fallbackReview |-> <<>>, newComments |-> <<>>,
   diffToReview |-> EmptyText, k |-> 1, attempt |-> 0, j |-> 1, lineCommentCount |-> 0, result |-> <<>>,
   \* history of the pass
   diffRequested |-> FALSE, emptyAnswer |-> FALSE, fallbackPosts |-> 0,
   cachedFiles |-> <<>>, looked |-> <<>>, wrote |-> <<>>, jsonCalls |-> 0,
   textCalls |-> 0, aiInputs |-> <<>>, requests |-> 0, supplied |-> <<>>,
   emptyAtStart |-> FALSE, preCached |-> FALSE, resent |-> FALSE,
   jsonKind |-> "", jsonError |-> "", failedWrites |-> 0, merged |-> FALSE, prevAtStart |-> <<>>]

FileKey(repo, file) == CacheKey(repo, file.path, file.contentHash)

ReturnedNoMessage(s, success, errorMessage) ==
  [s EXCEPT !.pc = "returned",
            !.result = <<Metrics(success, <<>>, s.lineCommentCount, <<0, 0>>)>>]

\* the returns at lines 565-574 and 686-695, and the return of the catch at
\* lines 696-710 with the message of the error caught
Returned(s, success, errorMessage) ==
  [s EXCEPT !.pc = "returned",
            !.result = <<Metrics(success, errorMessage, s.lineCommentCount,
                                 IF success
                                 THEN <<s.filesTotalCount, s.fileCachedCount>>
                                 ELSE <<0, 0>>)>>]

\* the early returns, which report no file counts
ReturnedEarly(s) ==
  [s EXCEPT !.pc = "returned", !.result = <<Metrics(TRUE, <<>>, 0, <<>>)>>]

\* what a returned pass leaves for the history
Summary(s) ==
  IF s.pc # "returned" THEN <<>>
  ELSE <<[repo |-> s.repo, diff |-> s.diff, emptyAtStart |-> s.emptyAtStart,
          structured |-> (s.jsonKind = "array" /\ s.textCalls = 0),
          fragments |-> Len(s.diffFiles),
          success |-> s.result[1].success, supplied |-> s.supplied]>>

NeverDisabled(row) == FALSE

\* line 543: dbRepository.configuration && !dbRepository.configuration.enabled
Disabled(row) == row.configuration # <<>> /\ ~row.configuration[1].enabled

\* lines 513-582: the event filter, the repository lookup, the enabled
\* check, the diff fetch and the segmentation; pull_request.number at line
\* 515 is a TypeError, caught at line 696, when the payload has no
\* pull_request
Entered(c, payload, fetched, before) ==
  LET row == RepoRow(payload.repository)
      s0  == [Fresh EXCEPT !.prevAtStart = before, !.emptyAtStart = (DOMAIN c = {})]
      s1  == [s0 EXCEPT !.diffRequested = TRUE]
  IN  IF ~payload.pull_request
      THEN Returned(s0, FALSE, <<"Cannot read properties of undefined">>)
      ELSE IF payload.action # "opened" /\ payload.action # "synchronize"
      THEN ReturnedEarly(s0)
      ELSE IF row = <<>>
      THEN Returned(s0, FALSE, <<"Repository not found in database">>)
      ELSE IF Disabled(row[1])
      THEN ReturnedEarly([s0 EXCEPT !.repo = row[1].id])
      ELSE IF fetched = <<>>
      THEN Returned([s1 EXCEPT !.repo = row[1].id], FALSE, <<"diff request failed">>)
      ELSE IF fetched[1] = EmptyText
      THEN Returned([s1 EXCEPT !.repo = row[1].id, !.diff = fetched[1]], TRUE, <<>>)
      ELSE LET files == parseAndHashDiff(fetched[1])
           IN  [s1 EXCEPT !.repo = row[1].id,
                          !.diff = fetched[1],
                          !.diffFiles = files,
                          !.filesTotalCount = Len(files),
                          !.preCached =
                             \A n \in DOMAIN files : FileKey(row[1].id, files[n]) \in DOMAIN c,
                          !.pc = IF files = <<>> THEN "review" ELSE "lookup"]

StartPass(p) ==
  /\ p \in slots
  /\ st[p].pc \in {"idle", "returned"}
  /\ runs < MaxRuns
  /\ \E payload \in Payloads, fetched \in Fetched :
       st' = [st EXCEPT ![p] = Entered(cache, payload, fetched, Summary(st[p]))]
  /\ runs' = runs + 1
  /\ UNCHANGED <<cache, slots, reviewed>>
  /\ UNCHANGED offPass

\* if (cached): null and the empty string are falsy
Truthy(cached) == cached # NoReview /\ cached[1][1] # "empty"

PartitionBoth(s, file, cached) ==
  IF cached # NoReview /\ cached[1][1] # "empty"
  THEN [s EXCEPT !.fileCachedCount = @ + 1,
                 !.cachedLineComments = @ \o ParsedComments(cached[1]),
                 !.cachedFiles = Append(@, file),
                 !.filesToReview = Append(@, file)]
  ELSE [s EXCEPT !.filesToReview = Append(@, file)]

\* lines 587-600: one turn of the partition loop, after the lookup answered
Partition(s, file, cached) ==
  IF Truthy(cached)
  THEN [s EXCEPT !.fileCachedCount = @ + 1,
                 !.cachedLineComments = @ \o ParsedComments(cached[1]),
                 !.cachedFiles = Append(@, file)]
  ELSE [s EXCEPT !.filesToReview = Append(@, file)]

\* lines 585-601: the cache lookup of fragment i
CacheLookup(p) ==
  /\ p \in slots
  /\ st[p].pc = "lookup"
  /\ \E ok \in ReadAnswers(store) :
       LET s      == st[p]
           file   == s.diffFiles[s.i]
           cached == getCachedReview(cache, ok, s.repo, file.path, file.contentHash)
           s1     == Partition(s, file, cached)
       IN  st' = [st EXCEPT ![p] =
                    [s1 EXCEPT !.i = s.i + 1,
                               !.looked = Append(@, FileKey(s.repo, file)),
                               !.pc = IF s.i = Len(s.diffFiles) THEN "review" ELSE "lookup"]]
  /\ UNCHANGED <<cache, slots, runs, reviewed>>
  /\ UNCHANGED offPass

ReviewAlways(filesToReview) == TRUE

\* if (filesToReview.length > 0)
NeedsReview(filesToReview) == Len(filesToReview) > 0

DiffOfFirstFile(filesToReview) ==
  IF filesToReview = <<>> THEN EmptyText ELSE filesToReview[1].fullDiff

\* filesToReview.map((f) => f.fullDiff).join('\n')
DiffToReview(filesToReview) ==
  JoinTexts([n \in DOMAIN filesToReview |-> filesToReview[n].fullDiff])

\* lines 603-619: after the partition, send the pending batch or skip the call
BatchReview(p) ==
  /\ p \in slots
  /\ st[p].pc = "review"
  /\ LET s  == st[p]
         s1 == [s EXCEPT !.lineComments = s.cachedLineComments]
     IN  st' = [st EXCEPT ![p] =
                  IF NeedsReview(s.filesToReview)
                  THEN [s1 EXCEPT !.pc = "json",
                                  !.attempt = 0,
                                  !.jsonCalls = @ + 1,
                                  !.diffToReview = DiffToReview(s.filesToReview),
                                  !.aiInputs = Append(@, DiffToReview(s.filesToReview)),
                                  !.resent =
                                     \E n \in DOMAIN s.filesToReview :
                                       FileKey(s.repo, s.filesToReview[n]) \in reviewed]
                  ELSE [s1 EXCEPT !.pc = "token"]]
  /\ UNCHANGED <<cache, slots, runs, reviewed>>
  /\ UNCHANGED offPass

FilterSkipsNull(newComments) == FALSE

\* c.file in the callback of newComments.filter: a TypeError when an
\* element of the array is null
FilterThrows(newComments) == \E n \in DOMAIN newComments : IsNull(newComments[n])

\* comment.file in the callback of filesToReview.find: a TypeError when the
\* comment is null (the callback runs, the pending list is not empty)
FindThrows(filesToReview, comment) == filesToReview # <<>> /\ IsNull(comment)

BatchKeys(s) == {FileKey(s.repo, s.filesToReview[n]) : n \in DOMAIN s.filesToReview}

\* lines 314-359 under lines 614-619 and 643-651: one request of
\* getAiReviewAsJson is answered; the client returns, retries, or throws
\* into the catch of reviewPullRequest, which calls getAiReviewAsText
JsonAttempt(p) ==
  /\ p \in slots
  /\ st[p].pc = "json"
  /\ \E out \in BackendOutcomes :
       LET s == [st[p] EXCEPT !.emptyAnswer =
                                 (out.kind \in {"array", "noarray"} /\ out.body = <<>>)]
           r == JsonAttemptResult(out, s.attempt)
       IN  /\ st' = [st EXCEPT ![p] =
                       CASE r.t = "return" ->
                              [s EXCEPT !.newComments = r.v, !.k = 1, !.attempt = 0,
                                        !.jsonKind = out.kind, !.pc = "cachewrite"]
                         [] r.t = "retry" ->
                              [s EXCEPT !.attempt = @ + 1]
                         [] OTHER ->
                              [s EXCEPT !.pc = "text", !.attempt = 0,
                                        !.jsonKind = "threw",
                                        !.jsonError = ErrorClass(out),
                                        !.textCalls = @ + 1,
                                        !.aiInputs = Append(@, s.diffToReview)]]
           /\ reviewed' = IF out.kind = "array" /\ ~FilterThrows(out.body)
                          THEN reviewed \cup BatchKeys(s) ELSE reviewed
  /\ UNCHANGED <<cache, slots, runs>>
  /\ UNCHANGED offPass

FilterNothing(newComments, file) == newComments

\* newComments.filter((c) => c.file === comment.file)
FilterByFile(newComments, file) ==
  LET same(c) == c.file = file
  IN  SelectSeq(newComments, same)

FindFileOrFirst(filesToReview, file) ==
  IF filesToReview = <<>> THEN <<>> ELSE <<filesToReview[1]>>

\* filesToReview.find((f) => f.path === comment.file): the first match
FindFile(filesToReview, file) ==
  LET hits == {n \in DOMAIN filesToReview : filesToReview[n].path = file}
  IN  IF hits = {} THEN <<>>
      ELSE <<filesToReview[CHOOSE n \in hits : \A m \in hits : n <= m]>>

WriteFailureThrows(s, returned, key) ==
  IF returned THEN [s EXCEPT !.wrote = Append(@, key)]
  ELSE [s EXCEPT !.pc = "text", !.attempt = 0, !.newComments = <<>>, !.k = 1,
                 !.failedWrites = @ + 1,
                 !.textCalls = @ + 1,
                 !.aiInputs = Append(@, s.diffToReview)]

\* lines 626-631: await cacheReview(...): its result is not looked at; the
\* history keeps the key written, or counts the write that failed
AfterWrite(s, returned, key) ==
  IF returned THEN [s EXCEPT !.wrote = Append(@, key)]
  ELSE [s EXCEPT !.failedWrites = @ + 1]

\* lines 643-651: the catch of the structured review's try block calls the
\* free-text client with the same text
CatchToFallback(s) ==
  [s EXCEPT !.pc = "text", !.attempt = 0, !.newComments = <<>>, !.k = 1,
            !.textCalls = @ + 1,
            !.aiInputs = Append(@, s.diffToReview)]

\* lines 623-633: one turn of the write-back loop; a TypeError thrown in
\* it is caught at line 643; the store may fail the upsert, which
\* cacheReview swallows
CacheWriteBack(p) ==
  /\ p \in slots
  /\ st[p].pc = "cachewrite"
  /\ st[p].k <= Len(st[p].newComments)
  /\ \E ok \in WriteAnswers(store, st[p].newComments[st[p].k].file) :
       LET s       == st[p]
           comment == s.newComments[s.k]
           found   == FindFile(s.filesToReview, comment.file)
           review  == JsonStringify(FilterByFile(s.newComments, comment.file))
       IN  IF FindThrows(s.filesToReview, comment)
              \/ (found # <<>> /\ FilterThrows(s.newComments))
           THEN /\ cache' = cache
                /\ st' = [st EXCEPT ![p] = CatchToFallback(s)]
           ELSE IF found # <<>>
           THEN LET w == cacheReview(cache, ok, s.repo, found[1].path,
                                     found[1].contentHash, review)
                IN  /\ cache' = w.table
                    /\ st' = [st EXCEPT ![p] =
                                AfterWrite([s EXCEPT !.k = @ + 1], w.returned,
                                           FileKey(s.repo, found[1]))]
           ELSE /\ cache' = cache
                /\ st' = [st EXCEPT ![p] = [s EXCEPT !.k = @ + 1]]
  /\ UNCHANGED <<slots, runs, reviewed>>
  /\ UNCHANGED offPass

\* line 635: lineComments.push(...newComments)
MergeNewComments(p) ==
  /\ p \in slots
  /\ st[p].pc = "cachewrite"
  /\ st[p].k > Len(st[p].newComments)
  /\ st' = [st EXCEPT ![p] =
              [@ EXCEPT !.lineComments = @ \o st[p].newComments,
                        !.merged = TRUE,
                        !.pc = "token"]]
  /\ UNCHANGED <<cache, slots, runs, reviewed>>
  /\ UNCHANGED offPass

FallbackText == "### AI Code Review"

\* lines 393-428 under lines 646-656: one request of getAiReviewAsText is
\* answered; a throw of the fallback client fails the pass
TextAttempt(p) ==
  /\ p \in slots
  /\ st[p].pc = "text"
  /\ \E out \in BackendOutcomes :
       LET s == st[p]
           r == TextAttemptResult(out, s.attempt)
       IN  st' = [st EXCEPT ![p] =
                    CASE r = "return" ->
                           [s EXCEPT !.fallbackReview = <<FallbackText>>,
                                     !.attempt = 0, !.pc = "token"]
                      [] r = "retry" ->
                           [s EXCEPT !.attempt = @ + 1]
                      [] OTHER ->
                           Returned([s EXCEPT !.attempt = 0], FALSE,
                                    <<"Gemini request failed">>)]
  /\ UNCHANGED <<cache, slots, runs, reviewed>>
  /\ UNCHANGED offPass

\* lines 663-679: the token, then the choice of what to post
GetInstallationToken(p) ==
  /\ p \in slots
  /\ st[p].pc = "token"
  /\ \E token \in BOOLEAN :
       LET s == st[p]
       IN  st' = [st EXCEPT ![p] =
                    IF ~token
                    THEN Returned(s, FALSE, <<"GitHub token not configured">>)
                    ELSE LET s1 == [s EXCEPT !.supplied = <<s.lineComments>>]
                         IN  IF Len(s.lineComments) > 0
                             THEN [s1 EXCEPT !.pc = "post", !.j = 1]
                             ELSE IF s.fallbackReview # <<>>
                             THEN [s1 EXCEPT !.pc = "postfallback"]
                             ELSE Returned(s1, TRUE, <<>>)]
  /\ UNCHANGED <<cache, slots, runs, reviewed>>
  /\ UNCHANGED offPass

\* lines 456-476: one turn of the loop of postLineCommentsToPR; after the
\* last turn lines 670-675 decide on the summary
PostLineComment(p) ==
  /\ p \in slots
  /\ st[p].pc = "post"
  /\ \E ok \in BOOLEAN :
       LET s  == st[p]
           s1 == [s EXCEPT !.j = @ + 1,
                           !.lineCommentCount = IF ok THEN @ + 1 ELSE @]
       IN  st' = [st EXCEPT ![p] =
                    IF s.j < Len(s.lineComments) THEN s1
                    ELSE IF s1.lineCommentCount > 0
                    THEN [s1 EXCEPT !.pc = "summary"]
                    ELSE Returned(s1, TRUE, <<>>)]
  /\ UNCHANGED <<cache, slots, runs, reviewed>>
  /\ UNCHANGED offPass

\* line 674: postCommentToPR(summary); a failed post throws
PostSummary(p) ==
  /\ p \in slots
  /\ st[p].pc = "summary"
  /\ \E ok \in BOOLEAN :
       st' = [st EXCEPT ![p] =
                IF ok THEN Returned(@, TRUE, <<>>)
                ELSE Returned(@, FALSE, <<"comment post failed">>)]
  /\ UNCHANGED <<cache, slots, runs, reviewed>>
  /\ UNCHANGED offPass

\* lines 676-678: postCommentToPR(fallbackReview); lineCommentCount = 1
PostFallback(p) ==
  /\ p \in slots
  /\ st[p].pc = "postfallback"
  /\ \E ok \in BOOLEAN :
       st' = [st EXCEPT ![p] =
                IF ok THEN Returned([@ EXCEPT !.lineCommentCount = 1,
                                              !.fallbackPosts = @ + 1], TRUE, <<>>)
                ELSE Returned(@, FALSE, <<"comment post failed">>)]
  /\ UNCHANGED <<cache, slots, runs, reviewed>>
  /\ UNCHANGED offPass

(***************************************************************************)
(* Spec: passes over one store, one after the other                        *)
(***************************************************************************)
Init ==
  /\ cache = [x \in {} |-> NoReview]
  /\ st = [p \in Passes |-> Fresh]
  /\ slots = {"p1"}
  /\ runs = 0
  /\ reviewed = {}
  /\ blocks = <<>>
  /\ pdiff = EmptyText
  /\ pfiles = <<>>
  /\ ppc = "off"
  /\ store = "up"
  /\ call = NoCall
  /\ rows = <<>>
  /\ ops = <<>>
  /\ SideOff

Next ==
  \E p \in Passes :
    \/ StartPass(p)
    \/ CacheLookup(p)
    \/ BatchReview(p)
    \/ JsonAttempt(p)
    \/ CacheWriteBack(p)
    \/ MergeNewComments(p)
    \/ TextAttempt(p)
    \/ GetInstallationToken(p)
    \/ PostLineComment(p)
    \/ PostSummary(p)
    \/ PostFallback(p)

Spec == Init /\ [][Next]_vars

(***************************************************************************)
(* SpecNoRead, SpecPartWrite: the same passes over a store whose queries   *)
(* fail                                                                    *)
(***************************************************************************)
InitNoRead ==
  /\ store = "noread"
  /\ cache = [x \in {} |-> NoReview]
  /\ st = [p \in Passes |-> Fresh]
  /\ slots = {"p1"}
  /\ runs = 0
  /\ reviewed = {}
  /\ blocks = <<>>
  /\ pdiff = EmptyText
  /\ pfiles = <<>>
  /\ ppc = "off"
  /\ call = NoCall
  /\ rows = <<>>
  /\ ops = <<>>
  /\ SideOff

SpecNoRead == InitNoRead /\ [][Next]_vars

InitPartWrite ==
  /\ store = "partwrite"
  /\ cache = [x \in {} |-> NoReview]
  /\ st = [p \in Passes |-> Fresh]
  /\ slots = {"p1"}
  /\ runs = 0
  /\ reviewed = {}
  /\ blocks = <<>>
  /\ pdiff = EmptyText
  /\ pfiles = <<>>
  /\ ppc = "off"
  /\ call = NoCall
  /\ rows = <<>>
  /\ ops = <<>>
  /\ SideOff

SpecPartWrite == InitPartWrite /\ [][Next]_vars

(***************************************************************************)
(* SpecForeign: the same passes over a table that holds reviews no pass    *)
(* wrote: cacheReview stores any string, and a row may hold text that is   *)
(* not JSON or the JSON of an object.  <<"text", <<>>>> is such a text,    *)
(* <<"object", cs>> is JSON.stringify({comments: cs}).                     *)
(***************************************************************************)
ForeignText == <<"text", <<>>>>
ForeignObject == <<"object", <<LineComment("a.py", 1)>>>>

\* the fragments of the two-file diff, and their keys for the enabled
\* repository
ForeignFiles ==
  parseAndHashDiff(BlocksText(<< <<"plain", "a.py", "1">>, <<"plain", "b.py", "1">> >>))

ForeignKeys == {FileKey("r1", ForeignFiles[n]) : n \in DOMAIN ForeignFiles}

\* the tables a pass may find: a row of each kind for the two fragments, or
\* a row for the first fragment only
ForeignTables ==
  { [k \in ForeignKeys |->
       IF k = FileKey("r1", ForeignFiles[1]) THEN ForeignObject ELSE ForeignText],
    [k \in {FileKey("r1", ForeignFiles[1])} |-> ForeignObject] }

InitForeign ==
  /\ store = "up"
  /\ cache \in ForeignTables
  /\ st = [p \in Passes |-> Fresh]
  /\ slots = {"p1"}
  /\ runs = 0
  /\ reviewed = {}
  /\ blocks = <<>>
  /\ pdiff = EmptyText
  /\ pfiles = <<>>
  /\ ppc = "off"
  /\ call = NoCall
  /\ rows = <<>>
  /\ ops = <<>>
  /\ SideOff

SpecForeign == InitForeign /\ [][Next]_vars

(***************************************************************************)
(* SpecClient: one invocation of getAiReviewAsJson or getAiReviewAsText,   *)
(* every request of which may end in any way the backend can answer        *)
(***************************************************************************)
\* the HTTP error statuses a request may end with
ClientStatuses == {400, 401, 403, 404, 429, 500, 502, 503}

ClientOutcomes ==
  [kind : {"array"}, status : {200}, body : Responses]
    \cup [kind : {"noarray", "badjson", "nocandidates"}, status : {200}, body : {<<>>}]
    \cup [kind : {"http"}, status : ClientStatuses, body : {<<>>}]
    \cup [kind : {"network"}, status : {0}, body : {<<>>}]

\* how one attempt of the client fn ends: "return", "retry" or "throw"
AttemptEnd(fn, out, attempt) ==
  IF fn = "json" THEN JsonAttemptResult(out, attempt).t
  ELSE TextAttemptResult(out, attempt)

ThrowFirstError(log, error) == IF log = <<>> THEN error ELSE log[1]

\* throw error: the error caught in this turn of the loop
ThrownError(log, error) == error

InitClient ==
  /\ call \in [fn : {"json", "text"}, pc : {"calling"}, attempt : {0},
               log : {<<>>}, thrown : {<<>>}]
  /\ store = "up"
  /\ rows = <<>>
  /\ ops = <<>>
  /\ blocks = <<>>
  /\ pdiff = EmptyText
  /\ pfiles = <<>>
  /\ ppc = "off"
  /\ cache = <<>>
  /\ st = <<>>
  /\ slots = {}
  /\ runs = 0
  /\ reviewed = {}
  /\ SideOff

\* one turn of the for loop (lines 314-359, 393-428): the request is
\* answered with out; log keeps the answers of the requests issued so far
ClientAttempt ==
  /\ call.pc = "calling"
  /\ call.attempt < maxRetries
  /\ \E out \in ClientOutcomes :
       LET t == AttemptEnd(call.fn, out, call.attempt)
       IN  call' =
             CASE t = "return" ->
                    [call EXCEPT !.pc = "returned", !.log = Append(@, out)]
               [] t = "retry" ->
                    [call EXCEPT !.attempt = @ + 1, !.log = Append(@, out)]
               [] OTHER ->
                    [call EXCEPT !.pc = "threw", !.log = Append(@, out),
                                 !.thrown = <<ThrownError(call.log, out)>>]
  /\ UNCHANGED <<parseVars, passVars, tableVars, store, sideVars>>

NextClient == ClientAttempt

SpecClient == InitClient /\ [][NextClient]_vars

\* the request answered with out failed, for the client fn: an error
\* status, no response at all, a body without candidates, or (for the
\* structured client) a bracketed text that is not JSON
FailedRequest(fn, out) ==
  \/ out.kind \in {"http", "network", "nocandidates"}
  \/ fn = "json" /\ out.kind = "badjson"

\* an HTTP client error other than 429
ClientError(out) == ErrorClass(out) = "client"

\* C12: an invocation of either client issues at most maxRetries (3)
\* requests; every request but the last one issued had failed; and when all
\* 3 attempts fail with retryable errors the client throws the error of the
\* last attempt.
C12_AtMostThreeRequests ==
  /\ Len(call.log) <= maxRetries
  /\ \A i \in DOMAIN call.log :
       i < Len(call.log) => FailedRequest(call.fn, call.log[i])
  /\ call.pc = "calling" => Len(call.log) < maxRetries
  /\ call.pc = "calling" => call.attempt = Len(call.log)
  /\ (Len(call.log) = maxRetries
        /\ \A i \in DOMAIN call.log :
             FailedRequest(call.fn, call.log[i]) /\ IsRetryable(call.log[i])) =>
       /\ call.pc = "threw"
       /\ call.thrown = <<call.log[maxRetries]>>

\* three requests failed with three different retryable errors and the
\* client threw
C12_Witness ==
  /\ call.pc = "threw"
  /\ Len(call.log) = maxRetries
  /\ call.log[1].kind = "http" /\ call.log[1].status = 429
  /\ call.log[2].kind = "nocandidates"
  /\ call.log[3].kind = "http" /\ call.log[3].status = 503

\* C13 (as stated): whenever a request of a client invocation fails with an
\* HTTP client error other than 429, the invocation throws that error and
\* exactly one request was issued by the invocation.
C13_ExactlyOneRequest ==
  \A i \in DOMAIN call.log :
    ClientError(call.log[i]) =>
      /\ call.pc = "threw"
      /\ call.thrown = <<call.log[i]>>
      /\ Len(call.log) = 1

\* C13 (amended): whenever a request of a client invocation fails with an
\* HTTP client error other than 429, the invocation throws that error at
\* once: the failing request is the last request of the invocation, and the
\* only one when it was the first.
C13_ClientErrorNotRetried ==
  \A i \in DOMAIN call.log :
    ClientError(call.log[i]) =>
      /\ call.pc = "threw"
      /\ call.thrown = <<call.log[i]>>
      /\ i = Len(call.log)
      /\ call.attempt = i - 1
      /\ i = 1 => Len(call.log) = 1

\* the first request of the structured client failed with 404 and it threw
C13_Witness ==
  /\ call.fn = "json"
  /\ call.pc = "threw"
  /\ call.log = <<[kind |-> "http", status |-> 404, body |-> <<>>]>>
  /\ call.thrown = <<call.log[1]>>

\* C14: a request that fails with no HTTP status (a network failure or
\* timeout) is retried like 429, 503 and 5xx: the client throws on it only
\* when it was the request of the last attempt.
C14_NetworkErrorRetried ==
  \A i \in DOMAIN call.log :
    call.log[i].kind = "network" =>
      \/ i < Len(call.log)
      \/ call.pc = "calling"
      \/ i = maxRetries

(***************************************************************************)
(* SpecCache: lib/cache.ts called by two callers at once.  The table is    *)
(* its sequence of rows; findUnique is one query; upsert is a select by    *)
(* the unique key followed by an update of the row found or by an insert,  *)
(* which the unique index on (repositoryId, filePath, contentHash) rejects *)
(* when a row of the key is there by then.  cache is the table as          *)
(* getCachedReview and cacheReview see it.                                 *)
(***************************************************************************)
Callers == Passes

TableKeys ==
  { CacheKey("r1", "a.py", hashFileContent(BlocksText(<< <<"plain", "a.py", "1">> >>))),
    CacheKey("r1", "a.py", hashFileContent(BlocksText(<< <<"plain", "a.py", "2">> >>))) }

TableReviews == {JsonStringify(<<>>), JsonStringify(<<LineComment("a.py", 1)>>)}

RowsOfPath(rs, key) == {i \in DOMAIN rs : rs[i].key[2] = key[2]}

\* where: { repositoryId_filePath_contentHash: { repositoryId, filePath,
\* contentHash } }: the rows equal to the key in all three columns
RowsOf(rs, key) == {i \in DOMAIN rs : rs[i].key = key}

\* SELECT by the unique key: the row, or nothing
SelectRow(rs, key) ==
  IF RowsOf(rs, key) = {} THEN <<>>
  ELSE <<rs[CHOOSE i \in RowsOf(rs, key) : \A j \in RowsOf(rs, key) : i <= j]>>

CreateRowNoIndex(rs, key, review) ==
  [ok |-> TRUE,
   rows |-> Append(rs, [key |-> key, review |-> review, createdAt |-> now])]

\* create: { repositoryId, filePath, contentHash, review }; the unique index
\* rejects the row when the key is taken; createdAt is the time of the
\* insert
CreateRow(rs, key, review) ==
  IF RowsOf(rs, key) # {} THEN [ok |-> FALSE, rows |-> rs]
  ELSE [ok   |-> TRUE,
        rows |-> Append(rs, [key |-> key, review |-> review, createdAt |-> now])]

UpdateRowKeepsReview(rs, key, review) == [ok |-> RowsOf(rs, key) # {}, rows |-> rs]

\* update: { review } of the row of the key
UpdateRow(rs, key, review) ==
  IF RowsOf(rs, key) = {} THEN [ok |-> FALSE, rows |-> rs]
  ELSE [ok   |-> TRUE,
        rows |-> [i \in DOMAIN rs |->
                    IF rs[i].key = key THEN [rs[i] EXCEPT !.review = review]
                    ELSE rs[i]]]

\* the second half of prisma.reviewCache.upsert
UpsertApply(rs, found, key, review) ==
  IF found THEN UpdateRow(rs, key, review) ELSE CreateRow(rs, key, review)

\* a whole upsert with no other query in between
UpsertAlone(rs, key, review) ==
  UpsertApply(rs, SelectRow(rs, key) # <<>>, key, review).rows

IdleOp ==
  [pc |-> "idle", calls |-> 0, fn |-> "", key |-> <<>>, review |-> NoReview,
   found |-> FALSE, stored |-> "", got |-> NoReview, want |-> NoReview,
   again |-> FALSE, other |-> FALSE]

InitCache ==
  /\ rows = <<>>
  /\ ops = [p \in Callers |-> IdleOp]
  /\ cache = [x \in {} |-> NoReview]
  /\ store = "up"
  /\ call = NoCall
  /\ st = <<>>
  /\ slots = {}
  /\ runs = 0
  /\ reviewed = {}
  /\ blocks = <<>>
  /\ pdiff = EmptyText
  /\ pfiles = <<>>
  /\ ppc = "off"
  /\ SideOff

offTable == <<parseVars, clientVars, st, slots, runs, reviewed, store, sideVars>>

\* getCachedReview (lines 410-437): one findUnique; got is what the caller
\* gets, want what getCachedReview answers on the table cache
GetCached(p) ==
  /\ ops[p].pc = "idle"
  /\ ops[p].calls < MaxCalls
  /\ \E key \in TableKeys :
       LET row == SelectRow(rows, key)
       IN  ops' = [ops EXCEPT ![p] =
                     [@ EXCEPT !.calls = @ + 1, !.fn = "get", !.key = key,
                               !.review = NoReview, !.stored = "",
                               !.again = FALSE, !.other = FALSE,
                               !.got = IF row = <<>> THEN NoReview ELSE <<row[1].review>>,
                               !.want = getCachedReview(cache, TRUE, key[1], key[2], key[3])]]
  /\ UNCHANGED <<rows, cache>>
  /\ UNCHANGED offTable

\* cacheReview (lines 442-449): the upsert selects the row of the key
UpsertSelect(p) ==
  /\ ops[p].pc = "idle"
  /\ ops[p].calls < MaxCalls
  /\ \E key \in TableKeys, review \in TableReviews :
       ops' = [ops EXCEPT ![p] =
                 [@ EXCEPT !.pc = "upsert", !.calls = @ + 1, !.fn = "put",
                           !.got = NoReview, !.want = NoReview,
                           !.found = SelectRow(rows, key) # <<>>,
                           !.again = (ops[p].fn = "put" /\ ops[p].stored = "true"
                                        /\ ops[p].key = key /\ ops[p].review = <<review>>),
                           !.other = (ops[p].fn = "put" /\ ops[p].stored = "true"
                                        /\ ops[p].key = key /\ ops[p].review # <<review>>),
                           !.key = key, !.review = <<review>>, !.stored = ""]]
  /\ UNCHANGED <<rows, cache>>
  /\ UNCHANGED offTable

\* cacheReview (lines 449-473): the upsert updates or inserts; cacheReview
\* returns true, or false from its catch when the query threw
UpsertWrite(p) ==
  /\ ops[p].pc = "upsert"
  /\ LET o == ops[p]
         r == UpsertApply(rows, o.found, o.key, o.review[1])
     IN  /\ rows' = r.rows
         /\ cache' = cacheReview(cache, r.ok, o.key[1], o.key[2], o.key[3], o.review[1]).table
         /\ ops' = [ops EXCEPT ![p] =
                      [@ EXCEPT !.pc = "idle",
                                !.stored = IF cacheReview(cache, r.ok, o.key[1], o.key[2],
                                                          o.key[3], o.review[1]).returned
                                           THEN "true" ELSE "false"]]
  /\ UNCHANGED offTable

NextCache ==
  \E p \in Callers :
    \/ GetCached(p)
    \/ UpsertSelect(p)
    \/ UpsertWrite(p)

SpecCache == InitCache /\ [][NextCache]_vars

(***************************************************************************)
(* SpecPost: the posting step of a pass (lines 669-695) for a merged list  *)
(* and a fallback text, postLineCommentsToPR keeping the log of its posts  *)
(***************************************************************************)
\* the merged lists: the cached comments, then the fresh ones
MergedLists ==
  {cached \o fresh : cached \in Responses, fresh \in Responses} \ {<<>>}

\* fallbackReview: null, or the text of getAiReviewAsText
FallbackTexts == {<<>>, <<"review text">>}

\* the return of the posting step: lines 686-695, or the catch at 696-710
PostReturned(s, success, errorMessage) ==
  [s EXCEPT !.pc = "done",
            !.result = <<[success |-> success, errorMessage |-> errorMessage,
                          lineCommentCount |-> s.lineCommentCount]>>]

PostFailureThrows(s, ok) ==
  IF ok THEN [s EXCEPT !.n = @ + 1, !.successCount = @ + 1]
  ELSE PostReturned(s, FALSE, <<"comment post failed">>)

\* lines 457-475: the try of one turn of the loop: a post that succeeds is
\* counted, one that throws is logged by the catch and the loop goes on
Posted(s, ok) ==
  [s EXCEPT !.n = @ + 1, !.successCount = IF ok THEN @ + 1 ELSE @]

LinePostsCountAttempts(s) ==
  LET s1 == [s EXCEPT !.lineCommentCount = Len(s.log)]
  IN  IF s1.lineCommentCount > 0 THEN [s1 EXCEPT !.pc = "summary"]
      ELSE PostReturned(s1, TRUE, <<>>)

\* lines 478 and 670-675: postLineCommentsToPR returns successCount; the
\* summary is posted when it is positive
LinePostsDone(s) ==
  LET s1 == [s EXCEPT !.lineCommentCount = s.successCount]
  IN  IF s1.lineCommentCount > 0 THEN [s1 EXCEPT !.pc = "summary"]
      ELSE PostReturned(s1, TRUE, <<>>)

InitPost ==
  /\ pub \in {[NoPost EXCEPT !.pc = "start", !.lineComments = l, !.fallbackReview = f] :
               l \in MergedLists \cup {<<>>}, f \in FallbackTexts}
  /\ hook = NoHook
  /\ wk = NoWork
  /\ pool = NoPool
  /\ sig = NoRequest
  /\ now = 0
  /\ ev = NoEvent
  /\ cache = <<>>
  /\ st = <<>>
  /\ slots = {}
  /\ runs = 0
  /\ reviewed = {}
  /\ blocks = <<>>
  /\ pdiff = EmptyText
  /\ pfiles = <<>>
  /\ ppc = "off"
  /\ store = "up"
  /\ call = NoCall
  /\ rows = <<>>
  /\ ops = <<>>

offPost == <<parseVars, passVars, clientVars, tableVars, store, sinkVars, evictVars>>

\* lines 669 and 676: the branch on the merged list and the fallback text;
\* with neither, nothing is posted and the pass returns
StartPosting ==
  /\ pub.pc = "start"
  /\ pub' = IF Len(pub.lineComments) > 0 THEN [pub EXCEPT !.pc = "loop"]
            ELSE IF pub.fallbackReview # <<>> THEN [pub EXCEPT !.pc = "fallback"]
            ELSE PostReturned(pub, TRUE, <<>>)
  /\ UNCHANGED offPost

\* lines 456-476: one turn of the loop of postLineCommentsToPR
PostOne ==
  /\ pub.pc = "loop"
  /\ \E ok \in BOOLEAN :
       LET attempt == [comment |-> pub.lineComments[pub.n], ok |-> ok]
           s1      == Posted([pub EXCEPT !.log = Append(@, attempt)], ok)
       IN  pub' = IF pub.n < Len(pub.lineComments) THEN s1 ELSE LinePostsDone(s1)
  /\ UNCHANGED offPost

\* lines 672-675 and 681-695: the summary post, which throws into the catch
\* of reviewPullRequest when it fails
SummaryPost ==
  /\ pub.pc = "summary"
  /\ \E ok \in BOOLEAN :
       pub' = IF ok THEN PostReturned([pub EXCEPT !.summary = "posted"], TRUE, <<>>)
              ELSE PostReturned([pub EXCEPT !.summary = "failed"], FALSE,
                                <<"comment post failed">>)
  /\ UNCHANGED offPost

\* lines 676-678: the fallback text is posted and counted as one comment;
\* a failed post throws into the catch of reviewPullRequest
FallbackPost ==
  /\ pub.pc = "fallback"
  /\ \E ok \in BOOLEAN :
       pub' = IF ok THEN PostReturned([pub EXCEPT !.fallback = "posted",
                                                 !.lineCommentCount = 1], TRUE, <<>>)
              ELSE PostReturned([pub EXCEPT !.fallback = "failed"], FALSE,
                                <<"comment post failed">>)
  /\ UNCHANGED offPost

NextPost == StartPosting \/ PostOne \/ SummaryPost \/ FallbackPost

SpecPost == InitPost /\ [][NextPost]_vars

(***************************************************************************)
(* SpecSink: the callers of reviewPullRequest that write the metrics       *)
(* record: the webhook handler answering one delivery, and the queue       *)
(* worker running over the waiting jobs.  reviewPullRequest returns a      *)
(* record and never throws; prisma.reviewMetric.create may throw.          *)
(***************************************************************************)
\* the ids of the jobs waiting in the queue: 1, ..., m
WaitingJobs == {[i \in 1..m |-> i] : m \in 0..MaxJobs}

\* webhook handler, lines 146-202: the review, then reviewMetric.create
\* inside the same try; its catch answers 500
HookAnswer(success, sinkOk) ==
  [pc |-> "answered", success |-> success,
   recorded |-> IF sinkOk THEN "ok" ELSE "failed",
   status |-> IF sinkOk THEN 200 ELSE 500]

\* the step of the handling of a job that throws, if any: job.updateProgress
\* before the review or after it, or queue.remove
JobFaults == {"none", "progress50", "progress100", "remove"}

Handled(job, passRan, success, recorded, counted, removed, threw) ==
  [job |-> job, reviewed |-> passRan, success |-> success, recorded |-> recorded,
   counted |-> counted, removed |-> removed, threw |-> threw]

FailedPassCountsFailed(job, body, success, row, sinkOk, io) ==
  IF body = "json" /\ io = "none" /\ (sinkOk \/ ~row) /\ success
  THEN Handled(job, TRUE, success, IF row THEN "ok" ELSE "none", "processed", TRUE, "none")
  ELSE Handled(job, body = "json", success, "none", "failed", FALSE, "none")

\* worker, lines 64-126: what the two try/catch make of one job.  An error
\* of updateProgress(50) reaches the outer catch (errors.push only).  A
\* body that JSON.parse rejects, a reviewMetric.create that throws, and an
\* error of updateProgress(100) or queue.remove end in the inner catch
\* (failed++, the job is not removed); without a repository row no metric
\* is written
JobOutcome(job, body, success, row, sinkOk, io) ==
  IF io = "progress50"
  THEN Handled(job, FALSE, FALSE, "none", "none", FALSE, "progress50")
  ELSE IF body = "bad"
  THEN Handled(job, FALSE, FALSE, "none", "failed", FALSE, "parse")
  ELSE IF row /\ ~sinkOk
  THEN Handled(job, TRUE, success, "failed", "failed", FALSE, "create")
  ELSE IF io # "none"
  THEN Handled(job, TRUE, success, IF row THEN "ok" ELSE "none", "failed", FALSE, io)
  ELSE Handled(job, TRUE, success, IF row THEN "ok" ELSE "none", "processed", TRUE,
               "none")

InitSink ==
  /\ hook = [NoHook EXCEPT !.pc = "reviewing"]
  /\ wk \in {[NoWork EXCEPT !.pc = "loop", !.waiting = w, !.queue = Range(w)] :
               w \in WaitingJobs}
  /\ pool = NoPool
  /\ sig = NoRequest
  /\ pub = NoPost
  /\ now = 0
  /\ ev = NoEvent
  /\ cache = <<>>
  /\ st = <<>>
  /\ slots = {}
  /\ runs = 0
  /\ reviewed = {}
  /\ blocks = <<>>
  /\ pdiff = EmptyText
  /\ pfiles = <<>>
  /\ ppc = "off"
  /\ store = "up"
  /\ call = NoCall
  /\ rows = <<>>
  /\ ops = <<>>

offSink == <<parseVars, passVars, clientVars, tableVars, store, postVars, evictVars>>

\* webhook handler, lines 146-202
HookReview ==
  /\ hook.pc = "reviewing"
  /\ \E success \in BOOLEAN, sinkOk \in BOOLEAN :
       hook' = HookAnswer(success, sinkOk)
  /\ UNCHANGED <<wk, pool, sig>>
  /\ UNCHANGED offSink

\* worker, lines 51-126: one turn of the loop over the waiting jobs
WorkJob ==
  /\ wk.pc = "loop"
  /\ wk.n <= Len(wk.waiting)
  /\ \E body \in {"json", "bad"}, success \in BOOLEAN, row \in BOOLEAN,
        sinkOk \in BOOLEAN, io \in JobFaults :
       LET o == JobOutcome(wk.waiting[wk.n], body, success, row, sinkOk, io)
       IN  wk' = [wk EXCEPT !.n = @ + 1,
                            !.processed = IF o.counted = "processed" THEN @ + 1 ELSE @,
                            !.failed = IF o.counted = "failed" THEN @ + 1 ELSE @,
                            !.errors = IF o.threw # "none"
                                       THEN Append(@, o.job) ELSE @,
                            !.queue = IF o.removed THEN @ \ {o.job} ELSE @,
                            !.log = Append(@, o)]
  /\ UNCHANGED <<hook, pool, sig>>
  /\ UNCHANGED offSink

\* worker, lines 53-56 and 128-141: the loop ends, after the last job or
\* when the time is nearly up, and the worker answers with its results
WorkerAnswer ==
  /\ wk.pc = "loop"
  /\ \E timeout \in BOOLEAN :
       /\ wk.n > Len(wk.waiting) \/ timeout
       /\ wk' = [wk EXCEPT !.pc = "done"]
  /\ UNCHANGED <<hook, pool, sig>>
  /\ UNCHANGED offSink

NextSink == HookReview \/ WorkJob \/ WorkerAnswer

SpecSink == InitSink /\ [][NextSink]_vars

(***************************************************************************)
(* SpecWorkers: invocations of the worker endpoint over one queue.  Each   *)
(* invocation reads the waiting jobs once (getJobs) and handles its copy   *)
(* of the list; a job stays in state 'waiting' while it is handled and     *)
(* leaves the queue only by queue.remove.  pool.ran counts, per job, the   *)
(* calls of reviewPullRequest that returned.                               *)
(***************************************************************************)
\* the invocations of POST /api/worker/process-queue
Workers == {"w1", "w2"}

\* worker, line 47: queue.getJobs(['waiting'], 0, maxJobs - 1), the first
\* maxJobs jobs waiting in the queue
GetWaiting(queue, maxJobs) ==
  LET m == IF Cardinality(queue) < maxJobs THEN Cardinality(queue) ELSE maxJobs
  IN  [i \in 1..m |-> CHOOSE j \in queue : Cardinality({k \in queue : k < j}) = i - 1]

InitWorkers ==
  /\ pool \in {[queue |-> Range(w),
                inv |-> [x \in Workers |-> [pc |-> "idle", waiting |-> <<>>, n |-> 1]],
                ran |-> [j \in Range(w) |-> 0]] : w \in WaitingJobs}
  /\ hook = NoHook
  /\ wk = NoWork
  /\ sig = NoRequest
  /\ pub = NoPost
  /\ now = 0
  /\ ev = NoEvent
  /\ cache = <<>>
  /\ st = <<>>
  /\ slots = {}
  /\ runs = 0
  /\ reviewed = {}
  /\ blocks = <<>>
  /\ pdiff = EmptyText
  /\ pfiles = <<>>
  /\ ppc = "off"
  /\ store = "up"
  /\ call = NoCall
  /\ rows = <<>>
  /\ ops = <<>>

offWorkers ==
  <<parseVars, passVars, clientVars, tableVars, store, postVars, evictVars, hook, wk, sig>>

\* worker, lines 29-48: the invocation starts and reads the waiting jobs
WorkerFetch(w) ==
  /\ pool.inv[w].pc = "idle"
  /\ \E maxJobs \in 1..MaxJobs :
       pool' = [pool EXCEPT !.inv[w] = [pc |-> "loop",
                                        waiting |-> GetWaiting(pool.queue, maxJobs),
                                        n |-> 1]]
  /\ UNCHANGED offWorkers

\* worker, lines 51-126: one turn of the loop, over the list read at the
\* start of the invocation
WorkerJob(w) ==
  /\ pool.inv[w].pc = "loop"
  /\ pool.inv[w].n <= Len(pool.inv[w].waiting)
  /\ \E body \in {"json", "bad"}, success \in BOOLEAN, row \in BOOLEAN,
        sinkOk \in BOOLEAN, io \in JobFaults :
       LET o == JobOutcome(pool.inv[w].waiting[pool.inv[w].n], body, success, row,
                           sinkOk, io)
       IN  pool' = [pool EXCEPT !.inv[w].n = @ + 1,
                                !.ran[o.job] = IF o.reviewed THEN @ + 1 ELSE @,
                                !.queue = IF o.removed THEN @ \ {o.job} ELSE @]
  /\ UNCHANGED offWorkers

\* worker, lines 53-56 and 128-141: the loop ends and the invocation answers
WorkerEnd(w) ==
  /\ pool.inv[w].pc = "loop"
  /\ \E timeout \in BOOLEAN :
       /\ pool.inv[w].n > Len(pool.inv[w].waiting) \/ timeout
       /\ pool' = [pool EXCEPT !.inv[w].pc = "done"]
  /\ UNCHANGED offWorkers

NextWorkers == \E w \in Workers : WorkerFetch(w) \/ WorkerJob(w) \/ WorkerEnd(w)

SpecWorkers == InitWorkers /\ [][NextWorkers]_vars

(***************************************************************************)
(* SpecVerify: the webhook handler's signature check on one request.  A    *)
(* header value is the sequence of its characters, "sha256=" counted as    *)
(* one; a digest has two characters, as a hex digest has 64.              *)
(***************************************************************************)
HeaderChars == {"sha256=", "0", "1"}
Bodies == {"b1", "b2"}
Secrets == {"k1", "k2"}

\* the values of the header x-hub-signature-256, up to MaxHeader characters
HeaderValues ==
  UNION {[1..n -> HeaderChars] : n \in 0..MaxHeader}

\* crypto.createHmac('sha256', secret).update(body).digest('hex')
Hmac(body, secret) ==
  IF body = "b1"
  THEN (IF secret = "k1" THEN <<"0", "1">> ELSE <<"1", "0">>)
  ELSE (IF secret = "k1" THEN <<"1", "1">> ELSE <<"0", "0">>)

\* `sha256=${hash}`
ExpectedSignature(body, secret) == <<"sha256=">> \o Hmac(body, secret)

\* crypto.timingSafeEqual(a, b): throws a RangeError when the two buffers
\* differ in byte length, else tells whether they are equal
TimingSafeEqual(a, b) ==
  IF Len(a) # Len(b) THEN "RangeError" ELSE IF a = b THEN "true" ELSE "false"

\* verifyGitHubSignature, lines 7-39: header is <<>> when the request has
\* none, secret is <<>> when GITHUB_WEBHOOK_SECRET is not set; the empty
\* string is falsy
verifyGitHubSignature(header, body, secret) ==
  IF header = <<>> \/ header[1] = <<>> THEN "false"
  ELSE IF secret = <<>> THEN "false"
  ELSE TimingSafeEqual(header[1], ExpectedSignature(body, secret[1]))

\* what the handler does with a request that passed the check, lines 56-211
Events ==
  {"unparseable", "installation", "other", "closed", "unknownRepo", "disabled",
   "review"}

InitVerify ==
  /\ sig \in {[NoRequest EXCEPT !.pc = "received", !.header = h, !.body = b,
                                !.secret = k] :
                h \in {<<>>} \cup {<<v>> : v \in HeaderValues},
                b \in Bodies,
                k \in {<<>>} \cup {<<x>> : x \in Secrets}}
  /\ hook = NoHook
  /\ wk = NoWork
  /\ pool = NoPool
  /\ pub = NoPost
  /\ now = 0
  /\ ev = NoEvent
  /\ cache = <<>>
  /\ st = <<>>
  /\ slots = {}
  /\ runs = 0
  /\ reviewed = {}
  /\ blocks = <<>>
  /\ pdiff = EmptyText
  /\ pfiles = <<>>
  /\ ppc = "off"
  /\ store = "up"
  /\ call = NoCall
  /\ rows = <<>>
  /\ ops = <<>>

offVerify ==
  <<parseVars, passVars, clientVars, tableVars, store, postVars, evictVars, hook, wk,
    pool>>

\* handler, lines 41-54 and 203-211: the check; a false answers 401, an
\* exception of the check reaches the catch of the handler, which answers 500
VerifyRequest ==
  /\ sig.pc = "received"
  /\ LET v == verifyGitHubSignature(sig.header, sig.body, sig.secret)
     IN  sig' = IF v = "true" THEN [sig EXCEPT !.pc = "verified"]
                ELSE IF v = "false" THEN [sig EXCEPT !.pc = "answered", !.status = 401]
                ELSE [sig EXCEPT !.pc = "answered", !.status = 500, !.threw = v]
  /\ UNCHANGED offVerify

\* handler, lines 56-211: the rest of the handler, for a verified request
HandleVerified ==
  /\ sig.pc = "verified"
  /\ \E e \in Events, ok \in BOOLEAN :
       sig' = [sig EXCEPT
                 !.pc = "answered",
                 !.db = e \in {"installation", "unknownRepo", "disabled", "review"},
                 !.pass = (e = "review"),
                 !.threw = IF e = "unparseable" THEN "SyntaxError" ELSE "none",
                 !.status = CASE e = "unparseable" -> 500
                              [] e = "installation" -> 200
                              [] e \in {"other", "closed", "disabled"} -> 202
                              [] e = "unknownRepo" -> 404
                              [] OTHER -> IF ok THEN 200 ELSE 500]
  /\ UNCHANGED offVerify

NextVerify == VerifyRequest \/ HandleVerified

SpecVerify == InitVerify /\ [][NextVerify]_vars

(***************************************************************************)
(* SpecEvict: one caller of lib/cache.ts at a time, storing, looking up    *)
(* and clearing old entries while the days pass.  ev keeps the last call,  *)
(* the table before a clearOldCache, and the history of the keys: stored   *)
(* at some time, and evicted since they were last stored.                  *)
(***************************************************************************)
\* the keys stored: one key, one of another path, one of another repository
StoreKeys ==
  { CacheKey("r1", "a.py", hashFileContent(BlocksText(<< <<"plain", "a.py", "1">> >>))),
    CacheKey("r1", "b.py", hashFileContent(BlocksText(<< <<"plain", "a.py", "1">> >>))),
    CacheKey("r2", "a.py", hashFileContent(BlocksText(<< <<"plain", "a.py", "1">> >>))) }

\* the keys looked up: those, and one of another content hash
LookupKeys ==
  StoreKeys \cup
    {CacheKey("r1", "a.py", hashFileContent(BlocksText(<< <<"plain", "a.py", "2">> >>)))}

\* the review stored under a key, a different one for each key
ReviewFor(key) ==
  JsonStringify(<<LineComment(key[2], IF key[1] = "r1" THEN 1 ELSE 2)>>)

\* cutoffDate.setDate(cutoffDate.getDate() - daysOld)
CutoffDate(today, daysOld) == today - daysOld

OldRowsAnyRepository(rs, repositoryId, cutoffDate) ==
  {i \in DOMAIN rs : rs[i].createdAt < cutoffDate}

\* where: { repositoryId, createdAt: { lt: cutoffDate } }
OldRows(rs, repositoryId, cutoffDate) ==
  {i \in DOMAIN rs : rs[i].key[1] = repositoryId /\ rs[i].createdAt < cutoffDate}

\* prisma.reviewCache.deleteMany: the rows left and the count of the rows
\* deleted
DeleteMany(rs, repositoryId, cutoffDate) ==
  LET old == OldRows(rs, repositoryId, cutoffDate)
  IN  [count |-> Cardinality(old), rows |-> PickAt(rs, DOMAIN rs \ old)]

\* clearOldCache (lines 480-500): result.count, or 0 from the catch when
\* the query throws (ok is false)
clearOldCache(rs, ok, repositoryId, daysOld) ==
  IF ~ok THEN [count |-> 0, rows |-> rs]
  ELSE DeleteMany(rs, repositoryId, CutoffDate(now, daysOld))

InitEvict ==
  /\ rows = <<>>
  /\ now = 0
  /\ ev = NoEvent
  /\ pub = NoPost
  /\ hook = NoHook
  /\ wk = NoWork
  /\ pool = NoPool
  /\ sig = NoRequest
  /\ cache = <<>>
  /\ st = <<>>
  /\ slots = {}
  /\ runs = 0
  /\ reviewed = {}
  /\ blocks = <<>>
  /\ pdiff = EmptyText
  /\ pfiles = <<>>
  /\ ppc = "off"
  /\ store = "up"
  /\ call = NoCall
  /\ ops = <<>>

offEvict == <<parseVars, passVars, clientVars, ops, store, postVars, sinkVars>>

\* a day passes
Tick ==
  /\ now < MaxDays
  /\ now' = now + 1
  /\ UNCHANGED <<rows, ev>>
  /\ UNCHANGED offEvict

\* cacheReview (lines 442-474) with no other query in between
StoreReview ==
  /\ \E key \in StoreKeys, ok \in BOOLEAN :
       /\ rows' = IF ok THEN UpsertAlone(rows, key, ReviewFor(key)) ELSE rows
       /\ ev' = [NoEvent EXCEPT !.fn = "put", !.key = key, !.ok = ok, !.saved = ok,
                                !.at = now,
                                !.stored = IF ok THEN ev.stored \cup {key} ELSE ev.stored,
                                !.evicted = IF ok THEN ev.evicted \ {key} ELSE ev.evicted]
  /\ UNCHANGED now
  /\ UNCHANGED offEvict

\* getCachedReview (lines 410-437)
LookupReview ==
  /\ \E key \in LookupKeys, ok \in BOOLEAN :
       LET row == SelectRow(rows, key)
       IN  ev' = [NoEvent EXCEPT !.fn = "get", !.key = key, !.ok = ok, !.at = now,
                                 !.got = IF ok /\ row # <<>> THEN <<row[1].review>>
                                         ELSE NoReview,
                                 !.stored = ev.stored, !.evicted = ev.evicted]
  /\ UNCHANGED <<rows, now>>
  /\ UNCHANGED offEvict

\* clearOldCache (lines 480-500)
ClearOldCache ==
  /\ \E repositoryId \in {"r1", "r2"}, daysOld \in 0..MaxDays, ok \in BOOLEAN :
       LET r    == clearOldCache(rows, ok, repositoryId, daysOld)
           gone == {rows[i].key : i \in DOMAIN rows} \ {r.rows[i].key : i \in DOMAIN r.rows}
       IN  /\ rows' = r.rows
           /\ ev' = [NoEvent EXCEPT !.fn = "clear", !.ok = ok, !.at = now,
                                    !.repositoryId = repositoryId, !.daysOld = daysOld,
                                    !.count = r.count, !.before = rows,
                                    !.stored = ev.stored,
                                    !.evicted = ev.evicted \cup gone]
  /\ UNCHANGED now
  /\ UNCHANGED offEvict

NextEvict == Tick \/ StoreReview \/ LookupReview \/ ClearOldCache

SpecEvict == InitEvict /\ [][NextEvict]_vars

(***************************************************************************)
(* Blocks of a text, by position: a block runs from a file header line to  *)
(* the line before the next file header line.                              *)
(***************************************************************************)
HeaderPos(text) == {i \in DOMAIN text : IsFileHeader(text[i])}

BlockEnd(text, i) ==
  LET later == {j \in HeaderPos(text) : j > i}
  IN  IF later = {} THEN Len(text)
      ELSE (CHOOSE j \in later : \A k \in later : j <= k) - 1

BlockAt(text, i) == SubSeq(text, i, BlockEnd(text, i))

StartsOf(text, path) == {i \in HeaderPos(text) : HeaderPath(text[i]) = path}

TextPaths(text) == {HeaderPath(text[i]) : i \in HeaderPos(text)}

MaxOf(S) == CHOOSE i \in S : \A j \in S : j <= i
MinOf(S) == CHOOSE i \in S : \A j \in S : i <= j

FragmentsOf(fs, path) == {j \in DOMAIN fs : fs[j].path = path}

DistinctPaths(bs) == \A i, j \in DOMAIN bs : i # j => bs[i][2] # bs[j][2]

\* C8: a diff of k file blocks with pairwise distinct paths (git-format
\* blocks included) segments into exactly k fragments, each fragment holds
\* every line of its block, and joining the fragments' texts with newlines
\* gives back the diff text.
C8_RoundTrip ==
  (ppc = "parsed" /\ DistinctPaths(blocks)) =>
    /\ Len(pfiles) = Len(blocks)
    /\ \A i \in DOMAIN blocks :
         \E j \in DOMAIN pfiles :
           /\ pfiles[j].path = blocks[i][2]
           /\ pfiles[j].fullDiff = BlockLines(blocks[i])
    /\ JoinTexts([j \in DOMAIN pfiles |-> pfiles[j].fullDiff]) = pdiff

\* C9: for every path that starts at least one block there is exactly one
\* fragment, and it holds the lines of the last block started with that
\* path; a path that starts no block has no fragment.  So no fragment holds
\* the lines of an earlier block of a path.
C9_LastBlockWins ==
  ppc = "parsed" =>
    /\ \A j \in DOMAIN pfiles : pfiles[j].path \in TextPaths(pdiff)
    /\ \A path \in TextPaths(pdiff) :
         /\ Cardinality(FragmentsOf(pfiles, path)) = 1
         /\ \A j \in FragmentsOf(pfiles, path) :
              /\ pfiles[j].lines = BlockAt(pdiff, MaxOf(StartsOf(pdiff, path)))
              /\ pfiles[j].fullDiff = pfiles[j].lines

\* a parsed diff in which one path starts two blocks with different lines
C9_Witness ==
  /\ ppc = "parsed"
  /\ \E path \in TextPaths(pdiff) :
       /\ Cardinality(StartsOf(pdiff, path)) > 1
       /\ BlockAt(pdiff, MinOf(StartsOf(pdiff, path)))
            # BlockAt(pdiff, MaxOf(StartsOf(pdiff, path)))
       /\ FragmentsOf(pfiles, path) # {}

(***************************************************************************)
(* Properties of the review pass                                           *)
(***************************************************************************)
\* the partition loop of the pass is over
Partitioned(s) == s.pc \notin {"idle", "lookup"}

\* the batch step of the pass is over or under way
Batched(s) == s.pc \notin {"idle", "lookup", "review"}

\* the pass runs on the diff and repository of the pass before it, which
\* started on an empty cache and succeeded through the structured review
SecondPass(s) ==
  /\ s.pc # "idle"
  /\ s.prevAtStart # <<>>
  /\ s.prevAtStart[1].emptyAtStart
  /\ s.prevAtStart[1].structured
  /\ s.prevAtStart[1].success
  /\ s.prevAtStart[1].repo = s.repo
  /\ s.prevAtStart[1].diff = s.diff

\* C1: once a pass has obtained a structured review for a batch holding a
\* fragment, no later pass puts that fragment (same repository, path and
\* content hash) into a batch again.
C1_NoFragmentSentTwice == \A p \in Passes : ~st[p].resent

\* C2: the second pass over the same diff, after a first pass that started
\* on an empty cache and succeeded through the structured review, calls no
\* AI client and counts every file as cached.
C2_SecondPassAllCached ==
  \A p \in Passes :
    (SecondPass(st[p]) /\ Partitioned(st[p])) =>
      /\ st[p].jsonCalls = 0
      /\ st[p].textCalls = 0
      /\ st[p].fileCachedCount = st[p].filesTotalCount

\* C3: that second pass supplies for posting the same set of line comments
\* as the first one did.
C3_SecondPassSameComments ==
  \A p \in Passes :
    (SecondPass(st[p]) /\ st[p].supplied # <<>>) =>
      Range(st[p].supplied[1]) = Range(st[p].prevAtStart[1].supplied[1])

\* C4: after the write-back of a structured review the cache holds, for
\* every file of the pending list, an entry under (repository, path, hash)
\* with exactly the comments attributed to that file, an empty list when
\* there are none.
C4_EntryForEveryPendingFile ==
  \A p \in Passes :
    (st[p].merged /\ st[p].jsonKind = "array") =>
      \A n \in DOMAIN st[p].filesToReview :
        LET f == st[p].filesToReview[n]
        IN  /\ FileKey(st[p].repo, f) \in DOMAIN cache
            /\ cache[FileKey(st[p].repo, f)]
                 = JsonStringify(FilterByFile(st[p].newComments, f.path))

\* C5: after the partition step fileCachedCount + |filesToReview| is the
\* number of fragments, which is filesTotalCount, and every fragment is in
\* exactly one of the two groups; during the loop the two groups hold the
\* fragments looked up so far.
C5_PartitionComplete ==
  \A p \in Passes :
    LET s == st[p]
    IN  /\ s.pc = "lookup" =>
             s.fileCachedCount + Len(s.filesToReview) = s.i - 1
        /\ Partitioned(s) =>
             /\ s.fileCachedCount + Len(s.filesToReview) = Len(s.diffFiles)
             /\ Len(s.diffFiles) = s.filesTotalCount
             /\ Len(s.cachedFiles) = s.fileCachedCount
             /\ Cardinality(Range(s.cachedFiles)) = s.fileCachedCount
             /\ Cardinality(Range(s.filesToReview)) = Len(s.filesToReview)
             /\ Range(s.cachedFiles) \cap Range(s.filesToReview) = {}
             /\ Range(s.cachedFiles) \cup Range(s.filesToReview) = Range(s.diffFiles)
             /\ (s.pc = "returned" /\ s.result[1].success /\ s.result[1].counts # <<>>) =>
                  s.result[1].counts = <<Len(s.diffFiles), Len(s.cachedFiles)>>

\* a partition with a cached and a pending fragment
C5_Witness ==
  \E p \in Passes :
    /\ st[p].pc = "review"
    /\ st[p].fileCachedCount > 0
    /\ Len(st[p].filesToReview) > 0

RECURSIVE TextsInOrder(_)
TextsInOrder(fs) ==
  IF fs = <<>> THEN <<>> ELSE Head(fs).lines \o TextsInOrder(Tail(fs))

Occurrences(text, line) == Cardinality({n \in DOMAIN text : text[n] = line})

C6_WitnessMixed ==
  \E p \in Passes :
    /\ Len(st[p].filesToReview) = 1
    /\ Len(st[p].cachedFiles) = 1
    /\ st[p].jsonCalls = 1
    /\ st[p].merged

CachedCommentsOf(s) ==
  Flatten([n \in DOMAIN s.diffFiles |->
             ParsedComments(cache[FileKey(s.repo, s.diffFiles[n])])])

\* C7: a pass all of whose fragments had a cache entry when it started calls
\* neither AI client, and what it supplies for posting is the cached
\* comments, deserialized, in fragment order.
C7_AllCachedNoAiCall ==
  \A p \in Passes :
    LET s == st[p]
    IN  (s.pc # "idle" /\ s.preCached /\ Len(s.diffFiles) > 0) =>
          /\ s.jsonCalls = 0
          /\ s.textCalls = 0
          /\ s.aiInputs = <<>>
          /\ s.pc \notin {"json", "text", "cachewrite", "postfallback"}
          /\ s.supplied # <<>> => s.supplied[1] = CachedCommentsOf(s)

\* a pass over two cached fragments returned with their comments supplied
C7_Witness ==
  \E p \in Passes :
    /\ st[p].pc = "returned"
    /\ st[p].preCached
    /\ Len(st[p].diffFiles) = 2
    /\ st[p].supplied # <<>>
    /\ Len(st[p].supplied[1]) >= 2
    /\ st[p].result[1].success

HeaderOnlyBlocks == {b \in BlockKinds : b[1] \in {"rename", "bare"}}

HeaderOnlyFragment(f, text) ==
  /\ f.fullDiff # EmptyText
  /\ Len(f.fullDiff) > 0
  /\ \A n \in DOMAIN f.fullDiff : f.fullDiff[n][1] \in {"git", "old", "new", "meta"}
  /\ Range(f.fullDiff) \subseteq Range(text)
  /\ f.lines[1] = text[1]
  /\ f.contentHash = hashFileContent(f.fullDiff)

\* C10: a diff of one file's header lines and no hunk line gives exactly one
\* fragment, whose text is non-empty and made of the header lines only; the
\* pass hashes it, looks it up under (repository, path, hash), puts it in
\* one of the two groups, and writes its entry back when a comment is
\* attributed to it, as for any fragment.
C10_HeaderOnlyFragment ==
  /\ runs = 0 =>  \* of the function alone: evaluated once, in the initial state
       \A b \in HeaderOnlyBlocks :
         LET fs == parseAndHashDiff(BlocksText(<<b>>))
         IN  Len(fs) = 1 /\ fs[1].path = b[2] /\ HeaderOnlyFragment(fs[1], BlocksText(<<b>>))
  /\ \A p \in Passes :
       LET s == st[p]
       IN  (s.pc # "idle" /\ s.diff \in HeaderOnlyDiffs) =>
             /\ Len(s.diffFiles) = 1
             /\ HeaderOnlyFragment(s.diffFiles[1], s.diff)
             /\ Partitioned(s) =>
                  /\ s.looked = <<FileKey(s.repo, s.diffFiles[1])>>
                  /\ (s.cachedFiles = <<s.diffFiles[1]>> /\ s.filesToReview = <<>>)
                       \/ (s.cachedFiles = <<>> /\ s.filesToReview = <<s.diffFiles[1]>>)
             /\ (s.merged /\ s.filesToReview # <<>>
                   /\ FilterByFile(s.newComments, s.diffFiles[1].path) # <<>>) =>
                  /\ FileKey(s.repo, s.diffFiles[1]) \in DOMAIN cache
                  /\ cache[FileKey(s.repo, s.diffFiles[1])]
                       = JsonStringify(FilterByFile(s.newComments, s.diffFiles[1].path))

\* a pass over a pure rename first wrote the fragment's entry, and a later
\* pass over the same diff found it
C10_Witness ==
  \E p \in Passes :
    /\ st[p].diff \in HeaderOnlyDiffs
    /\ st[p].pc = "returned"
    /\ st[p].cachedFiles # <<>>
    /\ st[p].fileCachedCount = 1
    /\ st[p].lineComments # <<>>

\* the pass got a diff that segments into no fragment: the empty text, or a
\* text with no file header line
ZeroFragments(s) ==
  \/ /\ s.pc = "returned"
     /\ s.repo # ""
     /\ s.diff = EmptyText
     /\ s.result[1].counts # <<>>
     /\ s.result[1].errorMessage # <<"diff request failed">>
  \/ /\ s.pc # "idle"
     /\ s.diff # EmptyText
     /\ s.diffFiles = <<>>

\* C11: a pass whose diff segments into zero fragments calls no AI client,
\* posts nothing, writes no cache entry, and when it returns it reports
\* success with filesTotalCount = 0 and fileCachedCount = 0, whatever the
\* other collaborators do (a missing GitHub token included).
C11_ZeroFragmentsNoOp ==
  \A p \in Passes :
    LET s == st[p]
    IN  ZeroFragments(s) =>
          /\ s.jsonCalls = 0
          /\ s.textCalls = 0
          /\ s.wrote = <<>>
          /\ s.lineCommentCount = 0
          /\ s.pc \notin {"json", "text", "cachewrite", "post", "summary", "postfallback"}
          /\ s.pc = "returned" =>
               /\ s.result[1].success
               /\ s.result[1].counts = <<0, 0>>

\* C15: when the structured call ends with a non-retryable backend error (a
\* client error other than 429) the free-text client is not invoked,
\* nothing is posted, and the pass returns at once with success = false.
C15_NonRetryableFailsPass ==
  \A p \in Passes :
    LET s == st[p]
    IN  s.jsonError = "client" =>
          /\ s.textCalls = 0
          /\ s.lineCommentCount = 0
          /\ s.pc = "returned"
          /\ ~s.result[1].success

\* C16: a pass in which the free-text client was invoked has made no call
\* of cacheReview, whatever the structured client answered before (an
\* array with a null element included), so it created and overwrote no
\* entry.
C16_FallbackWritesNothing ==
  \A p \in Passes : st[p].textCalls > 0 => st[p].wrote = <<>>

\* the structured client answered with a comment for a pending file followed
\* by null, the write-back threw, and the pass returned through the fallback
C16_Witness ==
  \E p \in Passes :
    /\ st[p].pc = "returned"
    /\ st[p].jsonKind = "array"
    /\ st[p].textCalls = 1
    /\ st[p].fallbackReview # <<>>
    /\ st[p].result[1].success
    /\ st[p].filesToReview # <<>>
    /\ st[p].filesToReview[1].path = "a.py"

\* the fresh cache table
EmptyCache == [x \in {} |-> NoReview]

\* C17: getCachedReview returns null and does not throw when the store's
\* query fails, as a working empty cache would answer.  In a pass over a
\* store all of whose reads fail every fragment is pending, whatever the
\* table holds: the one batch holds them all, and the pass supplies for
\* posting exactly the fresh comments and ends as the collaborators other
\* than the cache decide, as over an empty working cache.
C17_ReadFailureIsMiss ==
  \A p \in Passes :
    LET s == st[p]
    IN  /\ \A n \in DOMAIN s.looked :
             /\ getCachedReview(cache, FALSE, s.looked[n][1], s.looked[n][2], s.looked[n][3])
                  = NoReview
             /\ getCachedReview(cache, FALSE, s.looked[n][1], s.looked[n][2], s.looked[n][3])
                  = getCachedReview(EmptyCache, TRUE, s.looked[n][1], s.looked[n][2],
                                    s.looked[n][3])
        /\ (store = "noread" /\ Partitioned(s)) =>
             /\ s.filesToReview = s.diffFiles
             /\ s.fileCachedCount = 0
             /\ s.cachedLineComments = <<>>
             /\ s.cachedFiles = <<>>
        /\ (store = "noread" /\ Batched(s) /\ s.diffFiles # <<>>) =>
             /\ s.jsonCalls = 1
             /\ s.aiInputs[1] = TextsInOrder(s.diffFiles)
        /\ (store = "noread" /\ s.supplied # <<>>) =>
             s.supplied[1] = s.newComments
        /\ (store = "noread" /\ s.pc = "returned" /\ ~s.result[1].success) =>
             s.result[1].errorMessage \in
               { <<"Cannot read properties of undefined">>,
                 <<"Repository not found in database">>, <<"diff request failed">>,
                 <<"Gemini request failed">>, <<"GitHub token not configured">>,
                 <<"comment post failed">> }

\* every fragment of the pass has an entry in the table, every read failed,
\* both fragments went to the backend and the pass posted the fresh comments
C17_Witness ==
  \E p \in Passes :
    /\ store = "noread"
    /\ st[p].pc = "returned"
    /\ st[p].preCached
    /\ Len(st[p].diffFiles) = 2
    /\ Len(st[p].filesToReview) = 2
    /\ st[p].jsonCalls = 1
    /\ st[p].result[1].success
    /\ st[p].lineCommentCount = 2

\* C18: cacheReview returns false and does not throw when the store's query
\* fails, and leaves the table as it was.  A pass some or all of whose
\* cache writes fail goes on through the write-back loop, merges all fresh
\* comments, supplies them for posting, and ends as the collaborators other
\* than the cache decide: with success = true when the token is there and
\* the posts succeed.
C18_WriteFailureNotFatal ==
  \A p \in Passes :
    LET s == st[p]
    IN  /\ \A n \in DOMAIN s.looked :
             LET w == cacheReview(cache, FALSE, s.looked[n][1], s.looked[n][2],
                                  s.looked[n][3], JsonStringify(<<>>))
             IN  w.returned = FALSE /\ w.table = cache
        /\ s.failedWrites > 0 =>
             /\ s.textCalls = 0
             /\ s.pc \in {"cachewrite", "token", "post", "summary", "returned"}
             /\ s.pc # "cachewrite" =>
                  /\ s.merged
                  /\ s.lineComments = s.cachedLineComments \o s.newComments
             /\ s.supplied # <<>> => s.supplied[1] = s.lineComments
             /\ (s.pc = "returned" /\ ~s.result[1].success) =>
                  s.result[1].errorMessage \in
                    {<<"GitHub token not configured">>, <<"comment post failed">>}
             /\ (s.pc = "returned" /\ s.supplied # <<>>
                   /\ s.result[1].errorMessage # <<"comment post failed">>) =>
                  s.result[1].success

\* a pass one of whose two writes failed while the other succeeded returned
\* with success after posting both fresh comments
C18_Witness ==
  \E p \in Passes :
    /\ st[p].pc = "returned"
    /\ st[p].failedWrites = 1
    /\ Len(st[p].wrote) = 1
    /\ Len(st[p].newComments) = 2
    /\ st[p].result[1].success
    /\ st[p].lineCommentCount = 2

\* a pass all of whose writes failed returned with success
C18_WitnessAll ==
  \E p \in Passes :
    /\ st[p].pc = "returned"
    /\ st[p].failedWrites = 2
    /\ st[p].wrote = <<>>
    /\ st[p].result[1].success
    /\ st[p].lineCommentCount > 0

\* the table seen through its unique key: key -> review of the first row
IndexOf(rs) ==
  [key \in {rs[i].key : i \in DOMAIN rs} |-> SelectRow(rs, key)[1].review]

\* C19: for a fixed key, cacheReview called twice with the same review
\* leaves exactly one row of the key, and getCachedReview returns the review
\* passed in; a call with another review overwrites it and still leaves
\* one row.  In every state: a key has at most one row, the rows are what
\* the successful cacheReview calls made of the table, and every
\* getCachedReview got the review last stored for its key.
C19_UpsertIdempotent ==
  /\ rows = <<>> =>  \* of the operators alone: evaluated in the initial state
       \A key \in TableKeys, v \in TableReviews, w \in TableReviews :
         LET r1 == UpsertAlone(<<>>, key, v)
             r2 == UpsertAlone(r1, key, v)
             r3 == UpsertAlone(r2, key, w)
         IN  /\ Cardinality(RowsOf(r1, key)) = 1
             /\ r2 = r1
             /\ SelectRow(r2, key)[1].review = v
             /\ Cardinality(RowsOf(r3, key)) = 1
             /\ Len(r3) = 1
             /\ SelectRow(r3, key)[1].review = w
             /\ IndexOf(r3) = cacheReview(IndexOf(r2), TRUE, key[1], key[2], key[3], w).table
             /\ getCachedReview(IndexOf(r3), TRUE, key[1], key[2], key[3]) = <<w>>
  /\ \A key \in TableKeys :
       /\ Cardinality(RowsOf(rows, key)) <= 1
       /\ key \in DOMAIN cache <=> RowsOf(rows, key) # {}
  /\ IndexOf(rows) = cache
  /\ \A p \in Callers :
       /\ (ops[p].fn = "get" /\ ops[p].pc = "idle") => ops[p].got = ops[p].want
       /\ (ops[p].fn = "put" /\ ops[p].pc = "idle" /\ (ops[p].again \/ ops[p].other)) =>
            Cardinality(RowsOf(rows, ops[p].key)) = 1
       /\ (ops[p].fn = "put" /\ ops[p].pc = "idle" /\ ops[p].stored = "true"
             /\ \A q \in Callers \ {p} : ops[q].calls = 0) =>
            /\ SelectRow(rows, ops[p].key) # <<>>
            /\ <<SelectRow(rows, ops[p].key)[1].review>> = ops[p].review

\* one caller, alone, stored a review under a key and then another review
\* under the same key: the second call succeeded and the table has one row
C19_Witness ==
  \E p \in Callers :
    /\ ops[p].fn = "put"
    /\ ops[p].pc = "idle"
    /\ ops[p].other
    /\ ops[p].stored = "true"
    /\ \A q \in Callers \ {p} : ops[q].calls = 0
    /\ Len(rows) = 1
    /\ <<rows[1].review>> = ops[p].review

\* the same with the same review twice
C19_WitnessSame ==
  \E p \in Callers :
    /\ ops[p].fn = "put"
    /\ ops[p].pc = "idle"
    /\ ops[p].again
    /\ ops[p].stored = "true"
    /\ Len(rows) = 1

\* both callers' last call is a finished cacheReview of the same key
BothWrote(key) ==
  \A p \in Callers :
    ops[p].fn = "put" /\ ops[p].pc = "idle" /\ ops[p].key = key

EntryOf(response, key) == JsonStringify(FilterByFile(response, key[2]))

\* C21: in every state, a pass in any of its steps included, every cache
\* entry holds the whole list of the comments that one structured response
\* made on the entry's path: no comment of another file, none left out; the
\* entries a pass has written so far hold that list for its own response
C21_CacheEntriesComplete ==
  /\ \A key \in DOMAIN cache :
       /\ \A n \in DOMAIN ParsedComments(cache[key]) :
            ParsedComments(cache[key])[n].file = key[2]
       /\ \E response \in Responses : cache[key] = EntryOf(response, key)
  /\ \A p \in slots :
       \A n \in DOMAIN st[p].wrote :
         /\ st[p].wrote[n] \in DOMAIN cache
         /\ cache[st[p].wrote[n]] = EntryOf(st[p].newComments, st[p].wrote[n])

\* C21 witness: a pass between two cache writes, the entry it has written
\* holding both comments of the response on that path
C21_Witness ==
  \E p \in slots :
    /\ st[p].pc = "cachewrite"
    /\ st[p].k = 2
    /\ Len(st[p].newComments) = 2
    /\ Len(st[p].wrote) = 1
    /\ Len(ParsedComments(cache[st[p].wrote[1]])) = 2

\* the steps a pass is in
PassSteps ==
  {"idle", "lookup", "review", "json", "cachewrite", "text", "token", "post",
   "summary", "postfallback", "returned"}

\* the messages of the errors a pass catches
CaughtMessages ==
  {"Cannot read properties of undefined", "Repository not found in database",
   "diff request failed", "Gemini request failed", "GitHub token not configured",
   "comment post failed"}

\* C22: reviewPullRequest never throws: a pass ends in no other way than by
\* returning, it returns one metrics record, and the record has either
\* success = true and no error message, or success = false and the message
\* of the error it caught
C22_OneRecordNeverThrows ==
  \A p \in slots :
    LET s == st[p]
    IN  /\ s.pc \in PassSteps
        /\ s.pc # "returned" => s.result = <<>>
        /\ s.pc = "returned" =>
             /\ Len(s.result) = 1
             /\ \/ s.result[1].success /\ s.result[1].errorMessage = <<>>
                \/ /\ ~s.result[1].success
                   /\ Len(s.result[1].errorMessage) = 1
                   /\ s.result[1].errorMessage[1] \in CaughtMessages

\* C22 witness: after a pass that succeeded, a pass whose summary post
\* threw has returned the failure record
C22_Witness ==
  \E p \in slots :
    /\ st[p].pc = "returned"
    /\ ~st[p].result[1].success
    /\ st[p].result[1].errorMessage = <<"comment post failed">>
    /\ st[p].prevAtStart # <<>>
    /\ st[p].prevAtStart[1].success

\* the repository of the pass has a configuration with enabled = false
ConfiguredOff(s) ==
  \E g \in RepoIds :
    /\ RepoRow(g) # <<>>
    /\ RepoRow(g)[1].id = s.repo
    /\ RepoRow(g)[1].configuration = <<[enabled |-> FALSE]>>

\* C23: a pass for a repository whose configuration has enabled = false
\* makes no AI call, requests no diff, reads and writes no cache entry,
\* posts nothing, and returns success = true with a comment count of zero
C23_DisabledDoesNothing ==
  \A p \in slots :
    LET s == st[p]
    IN  (s.pc # "idle" /\ ConfiguredOff(s)) =>
          /\ s.pc = "returned"
          /\ s.jsonCalls = 0 /\ s.textCalls = 0 /\ s.aiInputs = <<>>
          /\ ~s.diffRequested
          /\ s.looked = <<>> /\ s.wrote = <<>> /\ s.failedWrites = 0
          /\ s.supplied = <<>> /\ s.lineCommentCount = 0
          /\ s.result[1].success
          /\ s.result[1].errorMessage = <<>>
          /\ s.result[1].lineCommentCount = 0

\* C23 witness: a pass for the disabled repository has returned while the
\* cache held entries
C23_Witness ==
  \E p \in slots :
    /\ st[p].pc = "returned"
    /\ ConfiguredOff(st[p])
    /\ ~st[p].emptyAtStart
    /\ DOMAIN cache # {}

\* the posts of the log that succeeded
Succeeded(log) == {i \in DOMAIN log : log[i].ok}

\* C24: whichever posts fail, postLineCommentsToPR posts the comments one
\* by one in the order of the list, each once, and returns the number of
\* posts that succeeded; the pass reports success = false only when the
\* summary post failed, so with every line post failing it reports success
C24_EveryCommentPostedOnce ==
  (pub.pc # "off" /\ pub.lineComments # <<>>) =>
    /\ Len(pub.log) = pub.n - 1
    /\ Len(pub.log) <= Len(pub.lineComments)
    /\ \A i \in DOMAIN pub.log : pub.log[i].comment = pub.lineComments[i]
    /\ pub.successCount = Cardinality(Succeeded(pub.log))
    /\ pub.pc \in {"summary", "done"} =>
         /\ Len(pub.log) = Len(pub.lineComments)
         /\ pub.lineCommentCount = Cardinality(Succeeded(pub.log))
    /\ pub.pc = "done" =>
         /\ pub.result[1].lineCommentCount = Cardinality(Succeeded(pub.log))
         /\ pub.result[1].success <=> pub.summary # "failed"
         /\ Succeeded(pub.log) = {} => pub.summary = "none"

\* C24 witness: the first post failed, a later one succeeded, and the pass
\* has returned success with the count of the posts that succeeded
C24_Witness ==
  /\ pub.pc = "done"
  /\ Len(pub.log) >= 3
  /\ ~pub.log[1].ok
  /\ Succeeded(pub.log) # {}
  /\ Cardinality(Succeeded(pub.log)) < Len(pub.log) - 1
  /\ pub.result[1].success

\* C24 witness: every post failed and the pass has returned success
C24_WitnessAllFailed ==
  /\ pub.pc = "done"
  /\ Len(pub.log) >= 2
  /\ Succeeded(pub.log) = {}
  /\ pub.result[1].success
  /\ pub.result[1].lineCommentCount = 0

\* C25: a metrics record that cannot be written does not make the pass a
\* failure for its caller: the webhook handler does not answer with an
\* error status, and the worker counts the job as processed and removes it
\* from the queue
C25_SinkFailureNotReported ==
  /\ (hook.pc = "answered" /\ hook.recorded = "failed") => hook.status = 200
  /\ \A i \in DOMAIN wk.log :
       wk.log[i].recorded = "failed" =>
         /\ wk.log[i].counted = "processed"
         /\ wk.log[i].job \notin wk.queue

\* the rows of the table before the last clearOldCache that are of its
\* repository and older than its cutoff
Expired ==
  {i \in DOMAIN ev.before :
     /\ ev.before[i].key[1] = ev.repositoryId
     /\ ev.before[i].createdAt < ev.at - ev.daysOld}

\* C26: clearOldCache(repositoryId, daysOld) deletes the entries of that
\* repository created before the cutoff and no other entry, and returns
\* their number; when the query fails it deletes nothing and returns 0
C26_ClearDeletesExactlyOld ==
  ev.fn = "clear" =>
    IF ev.ok
    THEN /\ ev.count = Cardinality(Expired)
         /\ Len(rows) = Len(ev.before) - Cardinality(Expired)
         /\ \A i \in DOMAIN ev.before :
              i \notin Expired <=> (\E j \in DOMAIN rows : rows[j] = ev.before[i])
    ELSE ev.count = 0 /\ rows = ev.before

\* C26 witness: a clearOldCache has deleted one entry and left an entry of
\* the same repository that is not older than the cutoff and an entry of
\* another repository that is
C26_Witness ==
  /\ ev.fn = "clear"
  /\ ev.ok
  /\ ev.count = 1
  /\ \E j \in DOMAIN rows :
       rows[j].key[1] = ev.repositoryId /\ rows[j].createdAt >= ev.at - ev.daysOld
  /\ \E j \in DOMAIN rows :
       rows[j].key[1] # ev.repositoryId /\ rows[j].createdAt < ev.at - ev.daysOld

\* C26 witness: the query of a clearOldCache failed while the table held an
\* entry older than the cutoff
C26_WitnessFailure ==
  /\ ev.fn = "clear"
  /\ ~ev.ok
  /\ Expired # {}

\* the keys that differ from the key in exactly one of repositoryId,
\* filePath and contentHash
Neighbours(key) ==
  {x \in LookupKeys : Cardinality({c \in 1..3 : x[c] # key[c]}) = 1}

\* C30: getCachedReview returns a review only for a key that was stored
\* and has not been evicted since, and then the review stored under
\* exactly that repositoryId, filePath and contentHash; entries that differ
\* from the lookup in one of the three make no difference
C30_ReviewOnlyForExactKey ==
  ev.fn = "get" =>
    /\ ev.got # NoReview =>
         /\ ev.key \in ev.stored
         /\ ev.key \notin ev.evicted
         /\ ev.got = <<ReviewFor(ev.key)>>
    /\ (ev.key \notin ev.stored \/ ev.key \in ev.evicted) => ev.got = NoReview

\* C30 witness: a lookup has returned the review of its key while the
\* table held an entry of a key different in one component, after an
\* eviction
C30_Witness ==
  /\ ev.fn = "get"
  /\ ev.got # NoReview
  /\ ev.evicted # {}
  /\ \E i \in DOMAIN rows : rows[i].key \in Neighbours(ev.key)

\* C30 witness: a lookup of a key never stored has returned nothing while
\* the table held an entry of a key different in the content hash only
C30_WitnessMiss ==
  /\ ev.fn = "get"
  /\ ev.ok
  /\ ev.key \notin ev.stored
  /\ ev.got = NoReview
  /\ \E i \in DOMAIN rows :
       rows[i].key[1] = ev.key[1] /\ rows[i].key[2] = ev.key[2]

\* C30 witness: a lookup of an evicted key has returned nothing
C30_WitnessEvicted ==
  /\ ev.fn = "get"
  /\ ev.ok
  /\ ev.key \in ev.evicted
  /\ ev.got = NoReview
  /\ rows # <<>>

\* the backend's last answer to the structured client of the pass was an
\* empty array, or a text with no array in it, for which the client
\* returns an empty array too
EmptyReview(s) == s.emptyAnswer

Matching(s, n) ==
  {c \in 1..n : \E m \in DOMAIN s.filesToReview :
                  s.filesToReview[m].path = s.newComments[c].file}

\* C28: when the structured review succeeded, the list supplied for posting
\* is the cached comments followed by every comment of the response, those
\* of no pending fragment included; the write-back loop writes once for each
\* comment of a pending fragment's path and not at all for the others
C28_UnmatchedCommentsStillPosted ==
  \A p \in slots :
    LET s == st[p]
    IN  /\ s.pc = "cachewrite" =>
             Len(s.wrote) + s.failedWrites = Cardinality(Matching(s, s.k - 1))
        /\ s.merged =>
             /\ s.lineComments = s.cachedLineComments \o s.newComments
             /\ s.supplied # <<>> =>
                  s.supplied[1] = s.cachedLineComments \o s.newComments
             /\ Len(s.wrote) + s.failedWrites =
                  Cardinality(Matching(s, Len(s.newComments)))
             /\ \A n \in DOMAIN s.wrote :
                  \E c \in Matching(s, Len(s.newComments)) :
                    s.wrote[n][2] = s.newComments[c].file

\* C28 witness: the response held one comment on a pending file and one on
\* a file of no pending fragment; both were supplied for posting and one
\* entry was written
C28_Witness ==
  \E p \in slots :
    /\ st[p].merged
    /\ st[p].supplied # <<>>
    /\ Len(st[p].newComments) = 2
    /\ Cardinality(Matching(st[p], 2)) = 1
    /\ \E n \in DOMAIN st[p].supplied[1] : st[p].supplied[1][n].file = "x.py"
    /\ Len(st[p].wrote) = 1

\* C29: parseAndHashDiff returns the fragments in the order in which their
\* paths first appear in the diff text, whatever the paths are
C29_FirstAppearanceOrder ==
  ppc = "parsed" =>
    \A i, j \in DOMAIN pfiles :
      i < j => MinOf(StartsOf(pdiff, pfiles[i].path))
                 < MinOf(StartsOf(pdiff, pfiles[j].path))

\* the pass is past its AI calls
Reviewed(s) == s.pc \in {"token", "post", "summary", "postfallback", "returned"}

\* C31: when the backend's answer to the structured request is a text with
\* no JSON array in it, the pass calls getAiReviewAsText for the same batch
\* and holds its text for posting
C31_NoArrayFallsBack ==
  \A p \in slots :
    LET s == st[p]
    IN  (s.jsonKind = "noarray" /\ Reviewed(s)
           /\ (s.pc = "returned" => s.result[1].success)) =>
          /\ s.textCalls = 1
          /\ s.aiInputs = <<s.diffToReview, s.diffToReview>>
          /\ s.fallbackReview = <<FallbackText>>

\* C32: a pass that got a fallback review and returned success = true has
\* posted that text once, with or without cached comments in lineComments
C32_FallbackPostedOnce ==
  \A p \in slots :
    LET s == st[p]
    IN  (s.pc = "returned" /\ s.result[1].success /\ s.fallbackReview # <<>>) =>
          s.fallbackPosts = 1

\* the pass has posted, or tried to post, a comment
Posting(s) ==
  \/ s.pc \in {"post", "summary", "postfallback"}
  \/ s.pc = "returned" /\ s.supplied # <<>>

\* C33: a pass writes to the cache only after the structured response has
\* come and the write-back loop is over before the first post; what it
\* wrote stays in the table whatever happens to the pass afterwards, a
\* failure included; and a pass that looks up a key that is in the table
\* gets a hit, so the retry of a failed pass finds the entries it wrote
C33_WritesBeforePostsAndKept ==
  \A p \in slots :
    LET s == st[p]
    IN  /\ s.pc \in {"lookup", "review", "json"} => s.wrote = <<>>
        /\ s.wrote # <<>> => s.jsonKind = "array"
        /\ s.pc = "cachewrite" =>
             /\ s.supplied = <<>>
             /\ s.lineCommentCount = 0 /\ s.fallbackPosts = 0
        /\ (Posting(s) /\ s.merged) => s.k = Len(s.newComments) + 1
        /\ \A n \in DOMAIN s.wrote :
             /\ s.wrote[n] \in DOMAIN cache
             /\ cache[s.wrote[n]] = EntryOf(s.newComments, s.wrote[n])
        /\ s.pc \in {"review", "json"} =>
             \A n \in DOMAIN s.diffFiles :
               FileKey(s.repo, s.diffFiles[n]) \in DOMAIN cache =>
                 \E m \in DOMAIN s.cachedFiles : s.cachedFiles[m] = s.diffFiles[n]

\* C33 witness: a pass that started on an empty cache wrote entries and then
\* failed; the next pass, over the same diff, has found cached files
C33_Witness ==
  \E p \in slots :
    /\ st[p].pc = "review"
    /\ st[p].prevAtStart # <<>>
    /\ st[p].prevAtStart[1].emptyAtStart
    /\ ~st[p].prevAtStart[1].success
    /\ st[p].prevAtStart[1].repo = st[p].repo
    /\ st[p].prevAtStart[1].diff = st[p].diff
    /\ st[p].cachedFiles # <<>>
    /\ st[p].fileCachedCount = Len(st[p].diffFiles)

\* the jobs of the log counted in a counter
Counted(log, counter) == {i \in DOMAIN log : log[i].counted = counter}

C34_ReviewedAtMostOnce ==
  \A j \in DOMAIN pool.ran : pool.ran[j] <= 1

(***************************************************************************)
(* C36: a request whose x-hub-signature-256 header is missing or differs   *)
(* from 'sha256=' + HMAC-SHA256(raw body, secret), a header of another     *)
(* length included, is answered 401 with no review pass and no database    *)
(* access.                                                                 *)
(***************************************************************************)
SignatureMatches(r) ==
  /\ r.header # <<>>
  /\ r.secret # <<>>
  /\ r.header[1] = ExpectedSignature(r.body, r.secret[1])

C36_BadSignatureAnswers401 ==
  (sig.pc = "answered" /\ ~SignatureMatches(sig))
    => (sig.status = 401 /\ ~sig.db /\ ~sig.pass)

(***************************************************************************)
(* C37: a fragment whose lookup returns a stored review that is not a JSON *)
(* array (text that does not parse, or JSON of another shape) is counted   *)
(* in fileCachedCount, contributes no comment, is not put on the pending   *)
(* list, and does not fail the pass: the partition loop never ends the     *)
(* pass, every looked-up fragment with such a row is among the cached      *)
(* files and not among the files to review, the count is the number of     *)
(* cached files, and the cached comments are those of the rows that hold   *)
(* arrays.                                                                 *)
(***************************************************************************)
NotAnArray(review) == review[1] \notin {"json", "empty"}

RECURSIVE ArrayComments(_, _, _)
ArrayComments(c, repo, files) ==
  IF files = <<>> THEN <<>>
  ELSE LET e == c[FileKey(repo, Head(files))]
       IN  (IF e[1] = "json" THEN e[2] ELSE <<>>) \o ArrayComments(c, repo, Tail(files))

Malformed(s) ==
  {n \in 1..Len(s.looked) :
     s.looked[n] \in DOMAIN cache /\ NotAnArray(cache[s.looked[n]])
       /\ s.diffFiles[n] \notin Range(s.filesToReview)}

PostedLines(log) == Cardinality({n \in DOMAIN log : log[n].ok})

C38_CountIsPostedLines ==
  /\ (pub.summary # "none") => Len(pub.log) = Len(pub.lineComments)
  /\ (pub.fallback # "none") => pub.log = <<>>
  /\ (pub.pc = "done" /\ pub.result[1].success) =>
       /\ pub.result[1].lineCommentCount =
            IF pub.fallback = "posted" THEN 1 ELSE PostedLines(pub.log)
       /\ (pub.summary = "posted") <=> (PostedLines(pub.log) > 0)

\* a successful pass with a failed and a successful line post and the summary
C38_Witness ==
  /\ pub.pc = "done" /\ pub.result[1].success
  /\ Len(pub.log) >= 2
  /\ PostedLines(pub.log) = 1
  /\ pub.result[1].lineCommentCount = 1
  /\ pub.summary = "posted"

\* a successful pass that posted the fallback text and counts one comment
C38_WitnessFallback ==
  /\ pub.pc = "done" /\ pub.result[1].success
  /\ pub.fallback = "posted"
  /\ pub.log = <<>>
  /\ pub.result[1].lineCommentCount = 1
  /\ pub.summary = "none"

====
